---- MODULE Spec2Model ----
(***************************************************************************)
(* A model of the Microsoft Graph / Teams extraction scripts:              *)
(*   servitec_notebook_extraction.py  match_notebook_to_channel,           *)
(*                                    rate_limited_request,                *)
(*                                    explore_drive_structure              *)
(*   export_graph_users.py            the paginated users export           *)
(*   notebook_extraction.py, explore_team_notebooks.py, modelo.py          *)
(*                                    their request helpers                *)
(* Python strings are TLA+ strings; Python's None is the string None,      *)
(* which lies outside every name the model draws.                          *)
(***************************************************************************)
EXTENDS Integers, Sequences, FiniteSets, TLC

VARIABLES
    notebook_name,        \* match_notebook_to_channel: argument
    team_name,            \* match_notebook_to_channel: argument
    channels,             \* match_notebook_to_channel: argument (list of dicts)
    clean_notebook_name,  \* local of match_notebook_to_channel
    m_pc,                 \* position in match_notebook_to_channel
    matched_by,           \* which return statement of the function was taken
    result                \* the returned pair (channel_name, channel_id)

match_vars == <<notebook_name, team_name, channels, clean_notebook_name,
                m_pc, matched_by, result>>

VARIABLES
    method,               \* rate_limited_request: argument
    retry_after_arg,      \* rate_limited_request: argument retry_after as passed
    retry_after,          \* rate_limited_request: the backoff value
    attempt,              \* rate_limited_request: iterations of the loop begun
    rl_pc,                \* position in rate_limited_request
    rl_ret,               \* the value rate_limited_request returned
    outcomes,             \* how each attempt ended, in order
    sleeps                \* the time.sleep calls made, in order

req_vars == <<method, retry_after_arg, retry_after, attempt, rl_pc, rl_ret,
              outcomes, sleeps>>

VARIABLES
    pages,                \* export_graph_users: the /users collection as the service pages it
    u_pc,                 \* position in export_graph_users
    me_id,                \* export_graph_users: me_id
    self_chat_id,         \* export_graph_users: self_chat_id
    url,                  \* export_graph_users: url (the page to request next)
    users,                \* export_graph_users: users
    output                \* export_graph_users: what was written to OUTPUT_FILE

users_vars == <<pages, u_pc, me_id, self_chat_id, url, users, output>>

VARIABLES
    drive,                \* explore_drive_structure: the children listing of each folder
    stack,                \* the invocations of explore_drive_structure in progress
    max_depth,            \* the greatest depth explore_drive_structure was invoked at
    calls                 \* the make_request calls of the traversal

drive_vars == <<drive, stack, max_depth, calls>>

VARIABLES
    group_id,             \* get_sections_for_notebook: argument (notebook_extraction only)
    site_id,              \* get_sections_for_notebook: argument
    answers,              \* what make_request returns for each endpoint
    sec_pc,               \* position in get_sections_for_notebook
    sections              \* the value get_sections_for_notebook returned

sections_vars == <<group_id, site_id, answers, sec_pc, sections>>

VARIABLES
    teams,                \* the extraction scripts: what the service holds for each team
    x_pc,                 \* position in the extraction function
    team_idx,             \* the teams the loop has begun
    team_channels,        \* channels of the team in progress, as fetched
    folder_idx,           \* root folders (servitec) or channels (notebook_extraction) done
    processed_notebook_ids, \* processed_notebook_ids
    notebooks_data,       \* notebooks_data
    final_idx,            \* final pass: the entries visited
    before_final,         \* notebooks_data when the final pass began
    refetched,            \* final pass: the channel list fetched for each entry visited
    saved                 \* what was written to the output file

extract_vars == <<teams, x_pc, team_idx, team_channels, folder_idx,
                  processed_notebook_ids, notebooks_data, final_idx,
                  before_final, refetched, saved>>

VARIABLES
    script,               \* the script that is running
    sent                  \* the HTTP requests issued, in order

vars == <<match_vars, req_vars, users_vars, drive_vars, sections_vars,
          extract_vars, script, sent>>

None == "<None>"

------------------------------------------------------------------------------
(* Python string primitives *)

UpperChars == "ABCDEFGHIJKLMNOPQRSTUVWXYZ"
LowerChars == "abcdefghijklmnopqrstuvwxyz"

CharAt(s, i) == SubSeq(s, i, i)

\* the table of str.lower() over the letters the model uses
LowerTable ==
    [c \in {CharAt(UpperChars, i) : i \in 1..Len(UpperChars)} |->
        CharAt(LowerChars, CHOOSE i \in 1..Len(UpperChars) : CharAt(UpperChars, i) = c)]

LowerChar(c) == IF c \in DOMAIN LowerTable THEN LowerTable[c] ELSE c

RECURSIVE LowerFrom(_, _)
LowerFrom(s, i) ==
    IF i > Len(s) THEN "" ELSE LowerChar(CharAt(s, i)) \o LowerFrom(s, i + 1)

\* str.lower()
Lower(s) == LowerFrom(s, 1)

\* str.startswith(p)
StartsWith(s, p) == Len(p) <= Len(s) /\ SubSeq(s, 1, Len(p)) = p

\* sub in s
Contains(s, sub) ==
    \E i \in 0..(Len(s) - Len(sub)) : SubSeq(s, i + 1, i + Len(sub)) = sub

RECURSIVE RemoveSpacesFrom(_, _)
RemoveSpacesFrom(s, i) ==
    IF i > Len(s) THEN ""
    ELSE (IF CharAt(s, i) = " " THEN "" ELSE CharAt(s, i)) \o RemoveSpacesFrom(s, i + 1)

\* str.replace(" ", "")
RemoveSpaces(s) == RemoveSpacesFrom(s, 1)

RECURSIVE SplitFrom(_, _, _)
SplitFrom(s, i, cur) ==
    IF i > Len(s) THEN (IF cur = "" THEN <<>> ELSE <<cur>>)
    ELSE IF CharAt(s, i) = " "
         THEN (IF cur = "" THEN <<>> ELSE <<cur>>) \o SplitFrom(s, i + 1, "")
         ELSE SplitFrom(s, i + 1, cur \o CharAt(s, i))

\* str.split(): the whitespace-delimited words, empty words dropped
Split(s) == SplitFrom(s, 1, "")

\* set(str.split())
TokenSet(s) == {Split(s)[k] : k \in 1..Len(Split(s))}

\* dict.get(key, default)
Get(d, key, default) == IF key \in DOMAIN d THEN d[key] ELSE default

------------------------------------------------------------------------------
(* match_notebook_to_channel *)

prefixes == <<
    "bloc de notas de ",
    "notas_ ",
    "notas de ",
    "notebook ",
    "notes - ",
    "notes_ ",
    "bloc de notes de ",
    "cuaderno de ",
    "onenote - " >>

RECURSIVE StripFrom(_, _)
StripFrom(name, k) ==
    IF k > Len(prefixes) THEN name
    ELSE StripFrom(IF StartsWith(name, prefixes[k])
                   THEN SubSeq(name, Len(prefixes[k]) + 1, Len(name))
                   ELSE name,
                   k + 1)

\* mutant: the pass is repeated until no listed prefix is left at the start
RECURSIVE StripPrefixes_Repeated(_)
StripPrefixes_Repeated(name) ==
    IF StripFrom(name, 1) = name THEN name ELSE StripPrefixes_Repeated(StripFrom(name, 1))

\* for prefix in prefixes: if name.startswith(prefix): name = name[len(prefix):]
StripPrefixes(name) == StripFrom(name, 1)

\* channel.get("displayName", "").lower()
ChName(channel) == Lower(Get(channel, "displayName", ""))

\* (channel.get("displayName"), channel.get("id"))
Pair(channel) == [channel_name |-> Get(channel, "displayName", None),
                  channel_id   |-> Get(channel, "id", None)]

Sentinel == [channel_name |-> "Unknown Channel", channel_id |-> "unknown"]

\* next((c for c in channels if c.get("displayName", "").lower() == "general"), None)
HasGeneral(chs) == \E i \in 1..Len(chs) : ChName(chs[i]) = "general"
GeneralChannel(chs) ==
    chs[CHOOSE i \in 1..Len(chs) :
            /\ ChName(chs[i]) = "general"
            /\ \A j \in 1..(i - 1) : ChName(chs[j]) # "general"]

\* no call of match_notebook_to_channel in progress
MatchIdle ==
    /\ notebook_name = ""
    /\ team_name = ""
    /\ channels = <<>>
    /\ clean_notebook_name = ""
    /\ m_pc = "off"
    /\ matched_by = "none"
    /\ result = Sentinel

\* no call of rate_limited_request in progress
ReqIdle ==
    /\ method = "GET"
    /\ retry_after_arg = 2
    /\ retry_after = 2
    /\ attempt = 0
    /\ rl_pc = "off"
    /\ rl_ret = None
    /\ outcomes = <<>>
    /\ sleeps = <<>>

\* export_graph_users is not running
UsersIdle ==
    /\ pages = <<>>
    /\ u_pc = "off"
    /\ me_id = None
    /\ self_chat_id = None
    /\ url = None
    /\ users = <<>>
    /\ output = None

\* no call of explore_drive_structure in progress
DriveIdle ==
    /\ drive = <<>>
    /\ stack = <<>>
    /\ max_depth = 0
    /\ calls = 0

\* the machines other than `running` are idle
\* no call of get_sections_for_notebook in progress
SectionsIdle ==
    /\ group_id = None
    /\ site_id = None
    /\ answers = <<>>
    /\ sec_pc = "off"
    /\ sections = <<>>

\* no extraction in progress
ExtractIdle ==
    /\ teams = <<>>
    /\ x_pc = "off"
    /\ team_idx = 0
    /\ team_channels = <<>>
    /\ folder_idx = 0
    /\ processed_notebook_ids = {}
    /\ notebooks_data = <<>>
    /\ final_idx = 0
    /\ before_final = <<>>
    /\ refetched = <<>>
    /\ saved = None

OthersIdle(running) ==
    /\ IF running = "match" THEN TRUE ELSE MatchIdle
    /\ IF running = "request" THEN TRUE ELSE ReqIdle
    /\ IF running = "users" THEN TRUE ELSE UsersIdle
    /\ IF running = "drive" THEN TRUE ELSE DriveIdle
    /\ IF running = "sections" THEN TRUE ELSE SectionsIdle
    /\ IF running = "extract" THEN TRUE ELSE ExtractIdle

\* the index of the first channel, in list order, whose test passed; 0 when none did
\* (for channel in channels: ... if <test>: return ...)
FirstMatch(tests) ==
    IF \E i \in 1..Len(tests) : tests[i]
    THEN CHOOSE i \in 1..Len(tests) : tests[i] /\ \A j \in 1..(i - 1) : ~tests[j]
    ELSE 0

\* mutant: the comparison without spaces is dropped
IsTeamName_NoSpaceless(clean, team) == clean = Lower(team)

\* the test of the team-name short-circuit
IsTeamName(clean, team) ==
    \/ clean = Lower(team)
    \/ RemoveSpaces(clean) = RemoveSpaces(Lower(team))

\* STRATEGY 1
ExactTest(channel, clean) ==
    ChName(channel) # "" /\ ChName(channel) = clean

\* STRATEGY 2
ContainTest(channel, clean) ==
    /\ ChName(channel) # ""
    /\ (Contains(clean, ChName(channel)) \/ Contains(ChName(channel), clean))

\* STRATEGY 3: score = len(common_tokens), plus 1 for each common token with len > 3
Score(channel, clean) ==
    LET common_tokens == TokenSet(ChName(channel)) \cap TokenSet(clean)
    IN  Cardinality(common_tokens) + Cardinality({t \in common_tokens : Len(t) > 3})

\* mutant: >= for >, so that the last of the channels with the best score wins
RECURSIVE BestFrom_LastWins(_, _, _, _, _)
BestFrom_LastWins(chs, clean, i, best_match, best_match_score) ==
    IF i > Len(chs) THEN [best_match |-> best_match, best_match_score |-> best_match_score]
    ELSE IF ChName(chs[i]) = ""
         THEN BestFrom_LastWins(chs, clean, i + 1, best_match, best_match_score)
         ELSE IF Score(chs[i], clean) >= best_match_score
              THEN BestFrom_LastWins(chs, clean, i + 1, i, Score(chs[i], clean))
              ELSE BestFrom_LastWins(chs, clean, i + 1, best_match, best_match_score)

RECURSIVE BestFrom(_, _, _, _, _)
BestFrom(chs, clean, i, best_match, best_match_score) ==
    IF i > Len(chs) THEN [best_match |-> best_match, best_match_score |-> best_match_score]
    ELSE IF ChName(chs[i]) = ""
         THEN BestFrom(chs, clean, i + 1, best_match, best_match_score)
         ELSE IF Score(chs[i], clean) > best_match_score
              THEN BestFrom(chs, clean, i + 1, i, Score(chs[i], clean))
              ELSE BestFrom(chs, clean, i + 1, best_match, best_match_score)

\* the loop of strategy 3, from best_match = None (index 0), best_match_score = 0
BestMatch(chs, clean) == BestFrom(chs, clean, 1, 0, 0)

RECURSIVE InitialsFrom(_, _)
InitialsFrom(words, k) ==
    IF k > Len(words) THEN "" ELSE CharAt(words[k], 1) \o InitialsFrom(words, k + 1)

\* ''.join([word[0] for word in ch_name.split() if word])
Initials(ch_name) == InitialsFrom(Split(ch_name), 1)

\* mutant: a single initial is enough
InitialsTest_SingleInitial(channel, clean) ==
    /\ ChName(channel) # ""
    /\ \/ Len(Initials(ChName(channel))) > 0 /\ Contains(clean, Initials(ChName(channel)))
       \/ Len(clean) > 0 /\ CharAt(clean, 1) = CharAt(ChName(channel), 1)

\* STRATEGY 4
InitialsTest(channel, clean) ==
    /\ ChName(channel) # ""
    /\ \/ Len(Initials(ChName(channel))) > 1 /\ Contains(clean, Initials(ChName(channel)))
       \/ Len(clean) > 0 /\ CharAt(clean, 1) = CharAt(ChName(channel), 1)

Return(by, pair) ==
    /\ m_pc' = "done"
    /\ matched_by' = by
    /\ result' = pair
    /\ UNCHANGED <<notebook_name, team_name, channels, clean_notebook_name>>
    /\ UNCHANGED <<req_vars, users_vars, drive_vars, sections_vars, extract_vars, script, sent>>

Goto(label) ==
    /\ m_pc' = label
    /\ UNCHANGED <<notebook_name, team_name, channels, clean_notebook_name,
                   matched_by, result>>
    /\ UNCHANGED <<req_vars, users_vars, drive_vars, sections_vars, extract_vars, script, sent>>

\* lowercase the notebook name and remove the prefixes
MatchClean ==
    /\ m_pc = "start"
    /\ clean_notebook_name' = StripPrefixes(Lower(notebook_name))
    /\ m_pc' = "teamcheck"
    /\ UNCHANGED <<notebook_name, team_name, channels, matched_by, result>>
    /\ UNCHANGED <<req_vars, users_vars, drive_vars, sections_vars, extract_vars, script, sent>>

\* the notebook is named like the team: default to the General channel if it exists
TeamNameCheck ==
    /\ m_pc = "teamcheck"
    /\ IF IsTeamName(clean_notebook_name, team_name) /\ HasGeneral(channels)
       THEN Return("team", Pair(GeneralChannel(channels)))
       ELSE Goto("s1")

\* mutant: the exact strategy is left out, containment comes first
Strategy1Exact_Skipped == m_pc = "s1" /\ Goto("s2")

Strategy1Exact ==
    /\ m_pc = "s1"
    /\ LET i == FirstMatch([k \in 1..Len(channels) |-> ExactTest(channels[k], clean_notebook_name)])
       IN  IF i # 0 THEN Return("exact", Pair(channels[i])) ELSE Goto("s2")

Strategy2Containment ==
    /\ m_pc = "s2"
    /\ LET i == FirstMatch([k \in 1..Len(channels) |-> ContainTest(channels[k], clean_notebook_name)])
       IN  IF i # 0 THEN Return("containment", Pair(channels[i])) ELSE Goto("s3")

Strategy3Tokens ==
    /\ m_pc = "s3"
    /\ LET b == BestMatch(channels, clean_notebook_name)
       IN  IF b.best_match # 0 /\ b.best_match_score > 0
           THEN Return("tokens", Pair(channels[b.best_match]))
           ELSE Goto("s4")

Strategy4Initials ==
    /\ m_pc = "s4"
    /\ LET i == FirstMatch([k \in 1..Len(channels) |-> InitialsTest(channels[k], clean_notebook_name)])
       IN  IF i # 0 THEN Return("initials", Pair(channels[i])) ELSE Goto("s5")

Strategy5General ==
    /\ m_pc = "s5"
    /\ IF HasGeneral(channels)
       THEN Return("general", Pair(GeneralChannel(channels)))
       ELSE Goto("s6")

\* mutant: a single channel is not taken as the last resort
Strategy6First_NeedsTwo ==
    /\ m_pc = "s6"
    /\ IF Len(channels) > 1
       THEN Return("first", Pair(channels[1]))
       ELSE Return("none", Sentinel)

\* the first channel if there is one, else the initial ("Unknown Channel", "unknown")
Strategy6First ==
    /\ m_pc = "s6"
    /\ IF Len(channels) > 0
       THEN Return("first", Pair(channels[1]))
       ELSE Return("none", Sentinel)

MatchNext ==
    \/ MatchClean
    \/ TeamNameCheck
    \/ Strategy1Exact
    \/ Strategy2Containment
    \/ Strategy3Tokens
    \/ Strategy4Initials
    \/ Strategy5General
    \/ Strategy6First

(* the inputs of match_notebook_to_channel *)

MaxChannels == 2

NotebookNames == {
    "", "Sales", "Notebook Sales", "Notes - Sales Team", "HR Team",
    "Random", "Design", "DevOps", "Bloc de notas de Dev Ops" }

TeamNames == { "Sales", "Dev Ops", "Marketing" }

\* a channel dict: always an id, a displayName unless the key is missing
DisplayNames == { "General", "Sales", "Sales Team", "Team Sales", "HR Sales", "Dev Ops", "" }

ChannelId(i) == "c" \o ToString(i)

ChannelAt(i, name) ==
    IF name = None THEN [id |-> ChannelId(i)]
    ELSE [id |-> ChannelId(i), displayName |-> name]

ChannelLists ==
    UNION { { [i \in 1..n |-> ChannelAt(i, names[i])] :
                names \in [1..n -> DisplayNames \cup {None}] } : n \in 0..MaxChannels }

MatchInit ==
    /\ notebook_name \in NotebookNames
    /\ team_name \in TeamNames
    /\ channels \in ChannelLists
    /\ clean_notebook_name = ""
    /\ m_pc = "start"
    /\ matched_by = "none"
    /\ result = Sentinel
    /\ OthersIdle("match")
    /\ script = "servitec_notebook_extraction"
    /\ sent = <<>>

SpecMatch == MatchInit /\ [][MatchNext]_vars

(* the inputs of the prefix stripping: up to two listed prefixes, in either
   spelling, before a body that starts with no listed prefix *)

CleanBodies == { "", "sales", "dev ops", "x" }

CapFirst(s) ==
    IF s = "" THEN s
    ELSE (IF \E i \in 1..Len(LowerChars) : CharAt(LowerChars, i) = CharAt(s, 1)
          THEN CharAt(UpperChars,
                      CHOOSE i \in 1..Len(LowerChars) : CharAt(LowerChars, i) = CharAt(s, 1))
          ELSE CharAt(s, 1)) \o SubSeq(s, 2, Len(s))

PrefixAt(k) == IF k = 0 THEN "" ELSE prefixes[k]

\* every name is drawn in lowercase and with a capital first letter
PrefixedNames ==
    UNION { { PrefixAt(a) \o PrefixAt(b) \o body,
              CapFirst(PrefixAt(a)) \o CapFirst(PrefixAt(b)) \o CapFirst(body) } :
            <<a, b, body>> \in (0..Len(prefixes)) \X (0..Len(prefixes)) \X CleanBodies }

CleanInit ==
    /\ notebook_name \in PrefixedNames
    /\ team_name = "Sales"
    /\ channels = <<>>
    /\ clean_notebook_name = ""
    /\ m_pc = "start"
    /\ matched_by = "none"
    /\ result = Sentinel
    /\ OthersIdle("match")
    /\ script = "servitec_notebook_extraction"
    /\ sent = <<>>

CleanNext == MatchClean

SpecClean == CleanInit /\ [][CleanNext]_vars

------------------------------------------------------------------------------
(* rate_limited_request (servitec_notebook_extraction.py) *)

\* mutant: one iteration too many
max_retries_OffByOne == 3 + 1

max_retries == 3

DefaultRetryAfter == 2

MaxBackoff == 60

Min(a, b) == IF a <= b THEN a ELSE b

\* the retry_after argument: the default, which make_request always leaves in
\* place, and a larger value the signature allows
RetryAfterArgs == { DefaultRetryAfter, 40 }

\* the Retry-After header of a 429: missing, delay-seconds, or an HTTP-date
NoHeader == None
RetryAfterHeaders == { NoHeader, "1", "30", "90", "Wed, 21 Oct 2015 07:28:00 GMT" }

Digits == "0123456789"

DigitTable ==
    [c \in {CharAt(Digits, i) : i \in 1..Len(Digits)} |->
        (CHOOSE i \in 1..Len(Digits) : CharAt(Digits, i) = c) - 1]

\* whether int(s) succeeds on the header values of the model
IsInt(s) == s # "" /\ \A i \in 1..Len(s) : CharAt(s, i) \in DOMAIN DigitTable

RECURSIVE ParseInt(_)
\* int(s) of a decimal string
ParseInt(s) ==
    IF Len(s) = 0 THEN 0
    ELSE 10 * ParseInt(SubSeq(s, 1, Len(s) - 1)) + DigitTable[CharAt(s, Len(s))]

\* requests.get(url, headers=headers)
Request(by, verb, target) == [script |-> by, method |-> verb, url |-> target]

IssueGet(by, target) == sent' = Append(sent, Request(by, "GET", target))

\* time.sleep(seconds) during the current attempt
Sleep(seconds, cause) ==
    sleeps' = Append(sleeps, [seconds |-> seconds, attempt |-> attempt + 1, cause |-> cause])

Attempting == rl_pc = "loop" /\ attempt < max_retries

\* mutant: the backoff grows by its start value instead of doubling
NextBackoff_Additive(r) == Min(r + DefaultRetryAfter, MaxBackoff)

\* retry_after = min(retry_after * 2, 60)
NextBackoff(r) == Min(r * 2, MaxBackoff)

\* mutant: the exception handler doubles the backoff as the 429 branch does
OnException_Doubling(kind) ==
    /\ outcomes' = Append(outcomes, kind)
    /\ Sleep(retry_after, "exception")
    /\ retry_after' = NextBackoff(retry_after)
    /\ attempt' = attempt + 1
    /\ UNCHANGED <<method, retry_after_arg, rl_pc, rl_ret>>

\* except Exception: time.sleep(retry_after), then the next iteration
OnException(kind) ==
    /\ outcomes' = Append(outcomes, kind)
    /\ Sleep(retry_after, "exception")
    /\ attempt' = attempt + 1
    /\ UNCHANGED <<method, retry_after_arg, retry_after, rl_pc, rl_ret>>

RLReturn(value, kind) ==
    /\ outcomes' = Append(outcomes, kind)
    /\ rl_pc' = "returned"
    /\ rl_ret' = value
    /\ attempt' = attempt + 1
    /\ UNCHANGED <<method, retry_after_arg, retry_after, sleeps>>

\* method != "GET": return None before any request
RLUnsupportedMethod ==
    /\ Attempting
    /\ method # "GET"
    /\ RLReturn(None, [kind |-> "unsupported", header |-> NoHeader])
    /\ UNCHANGED <<match_vars, users_vars, drive_vars, sections_vars, extract_vars, script, sent>>

\* status 200 and a body that parses: return data
RLSuccess ==
    /\ Attempting
    /\ method = "GET"
    /\ IssueGet("servitec_notebook_extraction", "url")
    /\ RLReturn("data", [kind |-> "200", header |-> NoHeader])
    /\ UNCHANGED <<match_vars, users_vars, drive_vars, sections_vars, extract_vars, script>>

\* status 200 and response.json() raises
RLBadBody ==
    /\ Attempting
    /\ method = "GET"
    /\ IssueGet("servitec_notebook_extraction", "url")
    /\ OnException([kind |-> "bad_body", header |-> NoHeader])
    /\ UNCHANGED <<match_vars, users_vars, drive_vars, sections_vars, extract_vars, script>>

\* status 429
RLRateLimited ==
    /\ Attempting
    /\ method = "GET"
    /\ IssueGet("servitec_notebook_extraction", "url")
    /\ \E h \in RetryAfterHeaders :
         IF h = NoHeader \/ IsInt(h)
         THEN /\ outcomes' = Append(outcomes, [kind |-> "429", header |-> h])
              /\ Sleep(IF h = NoHeader THEN retry_after ELSE ParseInt(h), "429")
              /\ retry_after' = NextBackoff(retry_after)
              /\ attempt' = attempt + 1
              /\ UNCHANGED <<method, retry_after_arg, rl_pc, rl_ret>>
         ELSE \* int() raises ValueError inside the try
              OnException([kind |-> "429", header |-> h])
    /\ UNCHANGED <<match_vars, users_vars, drive_vars, sections_vars, extract_vars, script>>

\* mutant: any other status is retried like a failed request
RLError_Retried ==
    /\ Attempting
    /\ method = "GET"
    /\ IssueGet("servitec_notebook_extraction", "url")
    /\ OnException([kind |-> "error", header |-> NoHeader])
    /\ UNCHANGED <<match_vars, users_vars, drive_vars, sections_vars, extract_vars, script>>

\* any other status: return None
RLError ==
    /\ Attempting
    /\ method = "GET"
    /\ IssueGet("servitec_notebook_extraction", "url")
    /\ RLReturn(None, [kind |-> "error", header |-> NoHeader])
    /\ UNCHANGED <<match_vars, users_vars, drive_vars, sections_vars, extract_vars, script>>

\* requests.get raises
RLRequestFailed ==
    /\ Attempting
    /\ method = "GET"
    /\ IssueGet("servitec_notebook_extraction", "url")
    /\ OnException([kind |-> "request_failed", header |-> NoHeader])
    /\ UNCHANGED <<match_vars, users_vars, drive_vars, sections_vars, extract_vars, script>>

\* the loop is exhausted: return None
RLGiveUp ==
    /\ rl_pc = "loop"
    /\ attempt >= max_retries
    /\ rl_pc' = "returned"
    /\ rl_ret' = None
    /\ UNCHANGED <<method, retry_after_arg, retry_after, attempt, outcomes, sleeps>>
    /\ UNCHANGED <<match_vars, users_vars, drive_vars, sections_vars, extract_vars, script, sent>>

ReqNext ==
    \/ RLUnsupportedMethod
    \/ RLSuccess
    \/ RLBadBody
    \/ RLRateLimited
    \/ RLError
    \/ RLRequestFailed
    \/ RLGiveUp

ReqInit ==
    /\ method \in {"GET", "POST"}
    /\ retry_after_arg \in RetryAfterArgs
    /\ retry_after = retry_after_arg
    /\ attempt = 0
    /\ rl_pc = "loop"
    /\ rl_ret = None
    /\ outcomes = <<>>
    /\ sleeps = <<>>
    /\ sent = <<>>
    /\ script = "servitec_notebook_extraction"
    /\ OthersIdle("request")

SpecRequest == ReqInit /\ [][ReqNext]_vars

\* a sequential run keeps executing until the function returns
SpecRequestFair == SpecRequest /\ WF_vars(ReqNext)

------------------------------------------------------------------------------
(* Properties of match_notebook_to_channel *)

Named(i) == ChName(channels[i]) # ""

Least(S) == CHOOSE i \in S : \A j \in S : i <= j

ExactSet == { i \in 1..Len(channels) : Named(i) /\ ChName(channels[i]) = clean_notebook_name }

ContainSet ==
    { i \in 1..Len(channels) :
        /\ Named(i)
        /\ \/ Contains(clean_notebook_name, ChName(channels[i]))
           \/ Contains(ChName(channels[i]), clean_notebook_name) }

\* the score as the claim words it
SharedTokens(i) ==
    { t \in TokenSet(clean_notebook_name) : t \in TokenSet(ChName(channels[i])) }
ClaimScore(i) ==
    Cardinality(SharedTokens(i)) + Cardinality({ t \in SharedTokens(i) : Len(t) > 3 })

TokenSet3 ==
    { i \in 1..Len(channels) :
        /\ Named(i)
        /\ ClaimScore(i) > 0
        /\ \A j \in 1..Len(channels) : Named(j) => ClaimScore(j) <= ClaimScore(i) }

InitialsSet ==
    { i \in 1..Len(channels) :
        /\ Named(i)
        /\ \/ /\ Len(Initials(ChName(channels[i]))) >= 2
              /\ Contains(clean_notebook_name, Initials(ChName(channels[i])))
           \/ /\ clean_notebook_name # ""
              /\ CharAt(clean_notebook_name, 1) = CharAt(ChName(channels[i]), 1) }

GeneralSet == { i \in 1..Len(channels) : ChName(channels[i]) = "general" }

\* the result of the first strategy, in the order of the claim, that yields a match
PriorityResult ==
    IF ExactSet # {} THEN Pair(channels[Least(ExactSet)])
    ELSE IF ContainSet # {} THEN Pair(channels[Least(ContainSet)])
    ELSE IF TokenSet3 # {} THEN Pair(channels[Least(TokenSet3)])
    ELSE IF InitialsSet # {} THEN Pair(channels[Least(InitialsSet)])
    ELSE IF GeneralSet # {} THEN Pair(channels[Least(GeneralSet)])
    ELSE IF Len(channels) > 0 THEN Pair(channels[1])
    ELSE Sentinel

NamedLikeTeam ==
    \/ clean_notebook_name = Lower(team_name)
    \/ RemoveSpaces(clean_notebook_name) = RemoveSpaces(Lower(team_name))

\* C1 (as stated): the function returns the result of the first strategy, in the
\* order exact, containment, token score, initials, General, first channel, that
\* yields a match.
C1_Original ==
    m_pc = "done" => result = PriorityResult

\* C1 (amended): the function returns the result of the first strategy in that
\* order that yields a match, unless the cleaned name is the team's name and a
\* General channel exists: then it returns the General channel, whatever the
\* strategies would have matched.
C1_PriorityOrder ==
    m_pc = "done" =>
        result = IF NamedLikeTeam /\ GeneralSet # {}
                 THEN Pair(channels[Least(GeneralSet)])
                 ELSE PriorityResult

\* an exact match returned although an earlier channel matches by containment only
C1_Witness ==
    /\ m_pc = "done"
    /\ matched_by = "exact"
    /\ Len(channels) >= 2
    /\ 1 \in ContainSet /\ 1 \notin ExactSet
    /\ result = Pair(channels[2])

\* C2: the pair ("Unknown Channel", "unknown") is returned if and only if the
\* channel list is empty.
C2_SentinelIffEmpty ==
    m_pc = "done" => (result = Sentinel <=> Len(channels) = 0)

C2_Witness ==
    m_pc = "done" /\ Len(channels) = 0 /\ result = Sentinel /\ notebook_name # ""

\* C3: when the cleaned name equals the team's name (in lowercase, or after
\* removing the spaces of both) and a channel named "general" exists, the first
\* such channel is returned and no strategy is tried.
C3_TeamNameGeneral ==
    (m_pc \notin {"start", "teamcheck"} /\ NamedLikeTeam /\ GeneralSet # {}) =>
        /\ m_pc = "done"
        /\ matched_by = "team"
        /\ result = Pair(channels[Least(GeneralSet)])

\* the short-circuit wins over a channel that matches the cleaned name exactly
C3_Witness ==
    /\ m_pc = "done"
    /\ matched_by = "team"
    /\ ExactSet # {}
    /\ result # Pair(channels[Least(ExactSet)])

\* C4: when the token strategy is reached, the channel returned has the highest
\* score (shared tokens, plus one per shared token longer than 3 characters), is
\* the first of the list with that score, and a highest score of 0 is no match.
C4_TokenScoring ==
    /\ matched_by = "tokens" =>
          /\ TokenSet3 # {}
          /\ result = Pair(channels[Least(TokenSet3)])
    /\ (\/ m_pc \in {"s4", "s5", "s6"}
        \/ (m_pc = "done" /\ matched_by \in {"initials", "general", "first", "none"})) =>
          \A i \in 1..Len(channels) : Named(i) => ClaimScore(i) = 0

\* two channels tie on a positive score and the first one is returned
C4_Witness ==
    /\ m_pc = "done"
    /\ matched_by = "tokens"
    /\ Len(channels) >= 2
    /\ ClaimScore(1) = ClaimScore(2)
    /\ ClaimScore(1) >= 2
    /\ result = Pair(channels[1])

\* C20: when the initials strategy returns, it returns the first channel of the
\* list, among those with a non-empty name, whose initials (the first letters of
\* the words of its name) are at least 2 and occur in the cleaned notebook name,
\* or whose name starts with the first character of the cleaned notebook name;
\* when there is no such channel the strategy returns nothing.
C20_InitialsStrategy ==
    /\ matched_by = "initials" =>
          /\ InitialsSet # {}
          /\ result = Pair(channels[Least(InitialsSet)])
    /\ (\/ m_pc \in {"s5", "s6"}
        \/ (m_pc = "done" /\ matched_by \in {"general", "first", "none"})) =>
          InitialsSet = {}

\* the second channel is returned for its initials inside the notebook name
\* ("do" in "random"), the first one being named and starting with another letter
C20_Witness ==
    /\ m_pc = "done"
    /\ matched_by = "initials"
    /\ Len(channels) = 2
    /\ Named(1)
    /\ InitialsSet = {2}
    /\ CharAt(clean_notebook_name, 1) # CharAt(ChName(channels[2]), 1)
    /\ result = Pair(channels[2])

\* the cleaned name the claim predicts for lowercase name = P(a) + P(b) + body
CleanExpected(a, b, body) ==
    IF a = 0 \/ b = 0 THEN body
    ELSE IF a < b THEN body
    ELSE PrefixAt(b) \o body

\* C5: the cleaned name is the lowercase notebook name after one pass over the
\* prefix list: of two leading prefixes the inner one is stripped too when it is
\* listed after the outer one, and stays when it is listed before it or is the
\* same prefix.
C5_SinglePassStripping ==
    m_pc = "teamcheck" =>
        LET lowered == Lower(notebook_name)
        IN  \A a \in 0..Len(prefixes), b \in 0..Len(prefixes) :
                StartsWith(lowered, PrefixAt(a) \o PrefixAt(b)) =>
                    \A body \in CleanBodies :
                        lowered = PrefixAt(a) \o PrefixAt(b) \o body
                            => clean_notebook_name = CleanExpected(a, b, body)

\* "Notebook Notas de sales": "notas de " is listed before "notebook " and stays
C5_Witness ==
    /\ m_pc = "teamcheck"
    /\ notebook_name = "Notebook Notas de Sales"
    /\ clean_notebook_name = "notas de sales"

------------------------------------------------------------------------------
(* Properties of rate_limited_request *)

EndedBadly(o) == o.kind \in {"429", "bad_body", "request_failed"}

\* C6: a call issues at most 3 requests, always returns (the parsed body or
\* None), and returns None when three attempts in a row ended in a 429 or in
\* an exception.
C6_BoundedAttempts ==
    /\ [](Len(sent) <= 3 /\ rl_ret \in {"data", None})
    /\ <>(rl_pc = "returned")
    /\ []((/\ rl_pc = "returned"
           /\ Len(outcomes) = 3
           /\ \A i \in 1..3 : EndedBadly(outcomes[i])) => rl_ret = None)

\* a 429, an exception and a 429 again: three requests, None
C6_Witness ==
    /\ rl_pc = "returned"
    /\ Len(sent) = 3
    /\ Len(outcomes) = 3
    /\ outcomes[1].kind = "429"
    /\ outcomes[2].kind = "request_failed"
    /\ outcomes[3].kind = "429"
    /\ rl_ret = None

RECURSIVE Pow2(_)
Pow2(n) == IF n = 0 THEN 1 ELSE 2 * Pow2(n - 1)

\* the 429 responses among the attempts before attempt i
Earlier429(i) == { k \in 1..(i - 1) : outcomes[k].kind = "429" }

\* C7 (as stated): with the default argument the wait on a 429 starts at 2
\* seconds and doubles after each 429, and no wait before a retry is longer than
\* 60 seconds.
C7_Original ==
    retry_after_arg = 2 =>
        \A i \in 1..Len(sleeps) :
            /\ outcomes[i].kind = "429" =>
                   sleeps[i].seconds = Min(2 * Pow2(Cardinality(Earlier429(i))), 60)
            /\ sleeps[i].attempt < 3 => sleeps[i].seconds <= 60

\* the waits of a 429 that were slept in full: their backoff was doubled
Doubled(i) == { k \in 1..(i - 1) : sleeps[k].cause = "429" }

\* the backoff value at attempt i
BackoffAt(i) == Min(retry_after_arg * Pow2(Cardinality(Doubled(i))), 60)

HeaderSeconds(h) == CASE h = "1" -> 1 [] h = "30" -> 30 [] h = "90" -> 90

\* C7 (amended): the backoff value starts at the retry_after argument (2 unless
\* the caller passes another), doubles after each 429 whose wait was slept, and
\* never exceeds 60; a wait after a 429 without a Retry-After header, or after an
\* exception, lasts the backoff value, so at most 60 seconds; a wait after a 429
\* with a numeric Retry-After header lasts the header's value, whatever it is.
C7_Backoff ==
    /\ retry_after = BackoffAt(Len(sleeps) + 1)
    /\ retry_after <= 60
    /\ \A i \in 1..Len(sleeps) :
          IF outcomes[i].kind = "429" /\ outcomes[i].header \in {"1", "30", "90"}
          THEN sleeps[i].seconds = HeaderSeconds(outcomes[i].header)
          ELSE sleeps[i].seconds = BackoffAt(i) /\ sleeps[i].seconds <= 60

\* three 429s, the second with Retry-After: 90: waits of 2, 90 and 8 seconds
C7_Witness ==
    /\ retry_after_arg = 2
    /\ Len(sleeps) = 3
    /\ sleeps[1].seconds = 2
    /\ sleeps[2].seconds = 90
    /\ sleeps[3].seconds = 8
    /\ retry_after = 16

\* an attempt ends in this step, and how
AttemptEnds == Len(outcomes') = Len(outcomes) + 1
EndingAs == outcomes'[Len(outcomes')]

\* the time.sleep calls of this step
SleepsNow == SubSeq(sleeps', Len(sleeps) + 1, Len(sleeps'))

\* C16 (as stated): on a 429 the call sleeps once, for the Retry-After value
\* when the response has the header and for the backoff value otherwise, and
\* the backoff value is doubled (up to its cap of 60) after the sleep whether
\* or not the header was used; the next attempt follows if one remains.
C16_Original ==
    [][(AttemptEnds /\ EndingAs.kind = "429") =>
          /\ Len(SleepsNow) = 1
          /\ EndingAs.header = NoHeader => SleepsNow[1].seconds = retry_after
          /\ IsInt(EndingAs.header) => SleepsNow[1].seconds = ParseInt(EndingAs.header)
          /\ retry_after' = NextBackoff(retry_after)
          /\ rl_pc' = "loop"]_vars

\* the responses that are not a 429, by what the call does with them
Parsed200 == "200"
Unparsable200 == "bad_body"
OtherStatus == "error"

\* C17 (as stated): the call ends at the first response that is not a 429: a
\* 200 returns the parsed body and any other status returns None, both without
\* a sleep and without a further request; a method other than GET returns None
\* without any request.
C17_Original ==
    /\ \A i \in 1..Len(outcomes) :
          outcomes[i].kind \in {Parsed200, Unparsable200, OtherStatus} =>
              /\ i = Len(outcomes)
              /\ rl_pc = "returned"
              /\ Len(sleeps) = i - 1
              /\ Len(sent) = i
              /\ rl_ret = IF outcomes[i].kind = OtherStatus THEN None ELSE "data"
    /\ method # "GET" => sent = <<>> /\ (rl_pc = "returned" => rl_ret = None)

\* C17 (amended): the call ends at the first response that is neither a 429 nor
\* a 200 whose body fails to parse: a 200 with a body that parses returns the
\* parsed body and any status other than 200 and 429 returns None, both without
\* a sleep and without a further request; a 200 whose body does not parse is
\* handled as an exception (a sleep of the backoff value, the call goes on); a
\* method other than GET returns None without any request.
C17_EndsAtFirstAnswer ==
    /\ \A i \in 1..Len(outcomes) :
          /\ outcomes[i].kind \in {Parsed200, OtherStatus} =>
                /\ i = Len(outcomes)
                /\ rl_pc = "returned"
                /\ Len(sleeps) = i - 1
                /\ Len(sent) = i
                /\ rl_ret = IF outcomes[i].kind = Parsed200 THEN "data" ELSE None
          /\ outcomes[i].kind = Unparsable200 =>
                /\ Len(sleeps) >= i
                /\ sleeps[i] = [seconds |-> BackoffAt(i), attempt |-> i, cause |-> "exception"]
                /\ Len(sent) >= i
    /\ method # "GET" => sent = <<>> /\ (rl_pc = "returned" => rl_ret = None)

\* a 429, then a 403: one sleep, two requests, None
C17_Witness ==
    /\ rl_pc = "returned"
    /\ Len(outcomes) = 2
    /\ outcomes[1].kind = "429"
    /\ outcomes[2].kind = OtherStatus
    /\ Len(sleeps) = 1
    /\ Len(sent) = 2
    /\ rl_ret = None

\* C18: when requests.get raises, the call sleeps once for the backoff value and
\* leaves the backoff value unchanged; the next attempt follows while one
\* remains, and the call always returns a value (the exception does not reach
\* the caller).
C18_ExceptionRetries ==
    /\ [][(AttemptEnds /\ EndingAs.kind = "request_failed") =>
             /\ Len(SleepsNow) = 1
             /\ SleepsNow[1].seconds = retry_after
             /\ retry_after' = retry_after
             /\ rl_pc' = "loop"]_vars
    /\ \A i \in 1..(max_retries - 1) :
          [](/\ Len(outcomes) = i
             /\ outcomes[i].kind = "request_failed"
             => <>(Len(sent) = i + 1))
    /\ <>(rl_pc = "returned" /\ rl_ret \in {"data", None})

\* a 429 doubles the backoff to 4, then requests.get raises twice: sleeps of 2,
\* 4 and 4 seconds, three requests, None
C18_Witness ==
    /\ rl_pc = "returned"
    /\ retry_after_arg = 2
    /\ Len(outcomes) = 3
    /\ outcomes[1].kind = "429"
    /\ outcomes[2].kind = "request_failed"
    /\ outcomes[3].kind = "request_failed"
    /\ sleeps[2].seconds = 4
    /\ sleeps[3].seconds = 4
    /\ retry_after = 4
    /\ Len(sent) = 3
    /\ rl_ret = None

------------------------------------------------------------------------------
(* export_graph_users.py *)

MaxPages == 2

\* user dicts as the service lists them: any of the keys may be missing
UserMe    == [id |-> "u1", displayName |-> "Me", userPrincipalName |-> "me@x"]
UserAna   == [id |-> "u2", displayName |-> "Ana", userPrincipalName |-> "ana@x"]
UserBo    == [id |-> "u4", userPrincipalName |-> "bo@x"]
UserNoUpn == [id |-> "u3", displayName |-> "Room"]
UserNoId  == [displayName |-> "Ghost", userPrincipalName |-> "ghost@x"]

\* the "value" lists of the pages
PageValues == {
    <<>>,
    <<UserAna>>,
    <<UserNoId>>,
    <<UserMe, UserAna>>,
    <<UserNoUpn, UserBo>>,
    <<UserBo, UserNoId, UserAna>> }

\* the URL of the i-th page; the first is the URL the script starts from
PageUrl(i) == IF i = 1 THEN "/users" ELSE "/users?skiptoken=" \o ToString(i)

\* a page of the collection: its users, and its @odata.nextLink unless it is the
\* last page of its chain; links lead forward, as the service's do
PageAt(value, next) ==
    IF next = 0 THEN [value |-> value]
    ELSE [value |-> value, nextLink |-> PageUrl(next)]

\* the service: the page behind each URL
Collections ==
    UNION { { [u \in {PageUrl(i) : i \in 1..n} |->
                 LET i == CHOOSE k \in 1..n : PageUrl(k) = u
                 IN  PageAt(values[i], nexts[i])] :
                values \in [1..n -> PageValues],
                nexts \in { f \in [1..n -> 0..n] : \A i \in 1..n : f[i] = 0 \/ f[i] > i } } :
            n \in 1..MaxPages }

\* the chats of GET /me/chats, each with the answer of GET /chats/{id}/members
ChatSelf  == [id |-> "chatS", chatType |-> "oneOnOne", members_status |-> 200, members |-> <<"u1">>]
ChatOther == [id |-> "chatO", chatType |-> "oneOnOne", members_status |-> 200, members |-> <<"u1", "u2">>]
ChatGroup == [id |-> "chatG", chatType |-> "group", members_status |-> 200, members |-> <<"u1", "u2", "u4">>]
ChatError == [id |-> "chatE", chatType |-> "oneOnOne", members_status |-> 403, members |-> <<>>]

ChatLists == {
    <<>>,
    <<ChatSelf>>,
    <<ChatGroup, ChatOther>>,
    <<ChatGroup, ChatOther, ChatSelf, ChatError>>,
    <<ChatError, ChatSelf, ChatOther>> }

\* whether the loop over the chats looks at chats[k]: no earlier chat hit the break
IsSelfChat(chat) ==
    /\ chat.chatType = "oneOnOne"
    /\ chat.members_status = 200
    /\ Len(chat.members) = 1
    /\ chat.members[1] = "u1"

Visited(chats, k) == \A j \in 1..(k - 1) : ~IsSelfChat(chats[j])

RECURSIVE MemberRequests(_, _)
\* the members requests of the loop, one per oneOnOne chat visited
MemberRequests(chats, k) ==
    IF k > Len(chats) \/ ~Visited(chats, k) THEN <<>>
    ELSE (IF chats[k].chatType = "oneOnOne"
          THEN <<Request("export_graph_users", "GET", "/chats/" \o chats[k].id \o "/members")>>
          ELSE <<>>) \o MemberRequests(chats, k + 1)

FoundSelfChat(chats) ==
    IF \E k \in 1..Len(chats) : IsSelfChat(chats[k])
    THEN chats[CHOOSE k \in 1..Len(chats) : IsSelfChat(chats[k]) /\ Visited(chats, k)].id
    ELSE None

\* if not user_id or not user_principal: continue
Skipped(user) ==
    Get(user, "id", None) = None \/ Get(user, "userPrincipalName", None) = None

Entry(user, chat_id) ==
    [displayName       |-> Get(user, "displayName", None),
     userPrincipalName |-> Get(user, "userPrincipalName", None),
     id                |-> Get(user, "id", None),
     chatId            |-> chat_id]

RECURSIVE ProcessUsers(_, _, _, _, _)
\* the loop over one page's users: the entries appended and the requests issued;
\* posts[k] is the status of the POST /chats made for value[k]
ProcessUsers(value, k, posts, me, self_chat) ==
    IF k > Len(value) THEN [entries |-> <<>>, requests |-> <<>>]
    ELSE LET rest == ProcessUsers(value, k + 1, posts, me, self_chat)
             user == value[k]
         IN  IF Skipped(user) THEN rest
             ELSE IF user.id = me
                  THEN [entries  |-> <<Entry(user, self_chat)>> \o rest.entries,
                        requests |-> rest.requests]
                  ELSE [entries  |-> <<Entry(user, IF posts[k] = 201
                                                   THEN "chat-" \o user.id
                                                   ELSE None)>> \o rest.entries,
                        requests |-> <<Request("export_graph_users", "POST", "/chats")>>
                                        \o rest.requests]

\* mutant: the export ends after the first page
NextUrl_None(page) == None

\* url = data.get("@odata.nextLink")
NextUrl(page) == Get(page, "nextLink", None)

UsersFrame == UNCHANGED <<match_vars, req_vars, drive_vars, sections_vars, extract_vars, script>>

\* GET /me: the current user's id, or an exception that ends the script
GetMe ==
    /\ u_pc = "me"
    /\ sent' = Append(sent, Request("export_graph_users", "GET", "/me"))
    /\ \E status \in {200, 401} :
         IF status = 200
         THEN /\ me_id' = "u1"
              /\ u_pc' = "chats"
         ELSE /\ u_pc' = "failed"
              /\ UNCHANGED me_id
    /\ UNCHANGED <<pages, self_chat_id, url, users, output>>
    /\ UsersFrame

\* GET /me/chats and the members of its oneOnOne chats: the 1:1 chat with self
FindSelfChat ==
    /\ u_pc = "chats"
    /\ \E status \in {200, 403}, chats \in ChatLists :
         IF status = 200
         THEN /\ sent' = Append(sent, Request("export_graph_users", "GET", "/me/chats"))
                            \o MemberRequests(chats, 1)
              /\ self_chat_id' = FoundSelfChat(chats)
         ELSE /\ sent' = Append(sent, Request("export_graph_users", "GET", "/me/chats"))
              /\ UNCHANGED self_chat_id
    /\ url' = PageUrl(1)
    /\ u_pc' = "page"
    /\ UNCHANGED <<pages, me_id, users, output>>
    /\ UsersFrame

\* one iteration of "while url": request the page, add its users, follow its link
FetchPage ==
    /\ u_pc = "page"
    /\ url # None
    /\ \E status \in {200, 500}, posts \in [1..Len(pages[url].value) -> {201, 400}] :
         IF status # 200
         THEN /\ sent' = Append(sent, Request("export_graph_users", "GET", url))
              /\ u_pc' = "failed"
              /\ UNCHANGED <<url, users>>
         ELSE LET done == ProcessUsers(pages[url].value, 1, posts, me_id, self_chat_id)
              IN  /\ sent' = Append(sent, Request("export_graph_users", "GET", url))
                                \o done.requests
                  /\ users' = users \o done.entries
                  /\ url' = NextUrl(pages[url])
                  /\ UNCHANGED u_pc
    /\ UNCHANGED <<pages, me_id, self_chat_id, output>>
    /\ UsersFrame

\* url is None: write the users to OUTPUT_FILE
WriteFile ==
    /\ u_pc = "page"
    /\ url = None
    /\ output' = users
    /\ u_pc' = "done"
    /\ UNCHANGED <<pages, me_id, self_chat_id, url, users, sent>>
    /\ UsersFrame

UsersNext ==
    \/ GetMe
    \/ FindSelfChat
    \/ FetchPage
    \/ WriteFile

UsersInit ==
    /\ pages \in Collections
    /\ u_pc = "me"
    /\ me_id = None
    /\ self_chat_id = None
    /\ url = None
    /\ users = <<>>
    /\ output = None
    /\ sent = <<>>
    /\ script = "export_graph_users"
    /\ OthersIdle("users")

SpecUsers == UsersInit /\ [][UsersNext]_vars

------------------------------------------------------------------------------
(* the request helpers of notebook_extraction.py, explore_team_notebooks.py and
   modelo.py *)

MaxRequests == 3

HelperFrame == UNCHANGED <<match_vars, req_vars, users_vars, drive_vars, sections_vars, extract_vars, script>>

\* mutant: the method argument is passed on to the HTTP library
NbMakeRequest_AnyMethod ==
    /\ script = "notebook_extraction"
    /\ Len(sent) < MaxRequests
    /\ \E verb \in {"GET", "POST"} :
         sent' = Append(sent, Request("notebook_extraction", verb, "url"))
    /\ HelperFrame

\* notebook_extraction.make_request(url, method): a GET, or nothing for another method
NbMakeRequest ==
    /\ script = "notebook_extraction"
    /\ Len(sent) < MaxRequests
    /\ \E verb \in {"GET", "POST"} :
         IF verb = "GET"
         THEN IssueGet("notebook_extraction", "url")
         ELSE UNCHANGED sent
    /\ HelperFrame

\* explore_team_notebooks.make_request(url)
ExploreMakeRequest ==
    /\ script = "explore_team_notebooks"
    /\ Len(sent) < MaxRequests
    /\ IssueGet("explore_team_notebooks", "url")
    /\ HelperFrame

\* modelo.get_buckets(plan_id)
ModeloGetBuckets ==
    /\ script = "modelo"
    /\ Len(sent) < MaxRequests
    /\ IssueGet("modelo", "/planner/plans/{plan_id}/buckets")
    /\ HelperFrame

\* modelo.get_tasks(plan_id)
ModeloGetTasks ==
    /\ script = "modelo"
    /\ Len(sent) < MaxRequests
    /\ IssueGet("modelo", "/planner/plans/{plan_id}/tasks")
    /\ HelperFrame

\* modelo.get_task_details(task_id)
ModeloGetTaskDetails ==
    /\ script = "modelo"
    /\ Len(sent) < MaxRequests
    /\ IssueGet("modelo", "/planner/tasks/{task_id}/details")
    /\ HelperFrame

HelperInit ==
    /\ script \in {"notebook_extraction", "explore_team_notebooks", "modelo"}
    /\ sent = <<>>
    /\ OthersIdle("none")

\* the requests of all five scripts, one script per run
HttpInit == ReqInit \/ UsersInit \/ HelperInit

HttpNext ==
    \/ ReqNext
    \/ UsersNext
    \/ NbMakeRequest
    \/ ExploreMakeRequest
    \/ ModeloGetBuckets
    \/ ModeloGetTasks
    \/ ModeloGetTaskDetails

SpecHttp == HttpInit /\ [][HttpNext]_vars

------------------------------------------------------------------------------
(* Properties of the scripts' requests *)

\* C8 (as stated): every request any of the five scripts issues is a GET.
C8_Original ==
    \A i \in 1..Len(sent) : sent[i].method = "GET"

Posts == SelectSeq(sent, LAMBDA r : r.method # "GET")

OthersExported == SelectSeq(users, LAMBDA e : e.id # "u1")

\* C8 (amended): every request of servitec_notebook_extraction,
\* notebook_extraction, explore_team_notebooks and modelo is a GET;
\* export_graph_users issues GETs and, besides them, exactly one POST to /chats
\* for each user it exports other than the current user.
C8_OnlyExportPosts ==
    /\ \A i \in 1..Len(sent) :
          \/ sent[i].method = "GET"
          \/ /\ sent[i].script = "export_graph_users"
             /\ sent[i].method = "POST"
             /\ sent[i].url = "/chats"
    /\ script = "export_graph_users" /\ u_pc # "failed" => Len(Posts) = Len(OthersExported)

\* an export that ended after posting to /chats
C8_Witness ==
    /\ script = "export_graph_users"
    /\ u_pc = "done"
    /\ Len(Posts) = 2
    /\ \E i \in 1..Len(sent) : sent[i].method = "GET" /\ sent[i].url = "/users"

\* the page requests issued so far
Fetched == SelectSeq(sent, LAMBDA r : r.method = "GET" /\ r.url \in DOMAIN pages)

RECURSIVE Chain(_)
\* the pages from u on, each the @odata.nextLink of the one before
Chain(u) ==
    <<u>> \o (IF "nextLink" \in DOMAIN pages[u] THEN Chain(pages[u].nextLink) ELSE <<>>)

HasBoth(user) == "id" \in DOMAIN user /\ "userPrincipalName" \in DOMAIN user

RECURSIVE Listed(_, _)
\* the users with both keys on the pages chain[k..], in page order
Listed(chain, k) ==
    IF k > Len(chain) THEN <<>>
    ELSE SelectSeq(pages[chain[k]].value, HasBoth) \o Listed(chain, k + 1)

\* C10: the pages are requested in the order of their nextLinks from /users on;
\* the loop goes on while the last page had a nextLink and ends, with the write,
\* exactly after the page that has none; the list written holds one entry per
\* listed user with both an id and a userPrincipalName, in page order.
C10_Pagination ==
    u_pc \in {"page", "done", "failed"} =>
        LET chain == Chain("/users")
            n     == Len(Fetched)
        IN  /\ n <= Len(chain)
            /\ \A k \in 1..n : Fetched[k].url = chain[k]
            /\ (u_pc = "page" /\ url # None) => (n < Len(chain) /\ url = chain[n + 1])
            /\ (u_pc = "page" /\ url = None) => n = Len(chain)
            /\ u_pc = "done" =>
                  /\ n = Len(chain)
                  /\ Len(output) = Len(Listed(chain, 1))
                  /\ \A k \in 1..Len(output) :
                        /\ output[k].id = Listed(chain, 1)[k].id
                        /\ output[k].userPrincipalName = Listed(chain, 1)[k].userPrincipalName

\* two pages, five users listed, four of them exported
C10_Witness ==
    /\ u_pc = "done"
    /\ Len(Fetched) = 2
    /\ Len(pages["/users"].value) = 2
    /\ Len(output) = 4
    /\ output[1].id = "u1"
    /\ output[4].id = "u2"

------------------------------------------------------------------------------
(* explore_drive_structure (servitec_notebook_extraction.py) *)

MaxFolders == 2

DEBUG_LEVEL == 2

FolderId(i) == "f" \o ToString(i)

FolderItem(i) == [name |-> "Folder " \o ToString(i), id |-> FolderId(i), folder |-> TRUE]

NoteFile == [name |-> "Notes.one", id |-> "n1"]
TextFile == [name |-> "readme.txt", id |-> "t1"]

Nodes == {"root"} \cup {FolderId(i) : i \in 1..MaxFolders}

RECURSIVE FolderItems(_, _)
\* the folder items of the folders of S numbered from i on, in order
FolderItems(S, i) ==
    IF i > MaxFolders THEN <<>>
    ELSE (IF i \in S THEN <<FolderItem(i)>> ELSE <<>>) \o FolderItems(S, i + 1)

\* the files of the listings: a OneNote file and another in the root, a OneNote
\* file in the first folder
FilesOf(node) ==
    IF node = "root" THEN <<NoteFile, TextFile>>
    ELSE IF node = FolderId(1) THEN <<NoteFile>>
    ELSE <<>>

\* the drives: every folder may list any folders, itself and its ancestors included
Drives ==
    { [node \in Nodes |-> FolderItems(sub[node], 1) \o FilesOf(node)] :
        sub \in [Nodes -> SUBSET (1..MaxFolders)] }

\* item.get("folder")
IsFolder(item) == Get(item, "folder", FALSE)

\* ".one" in name.lower() or "onenote" in name.lower()
IsOneNote(item) ==
    Contains(Lower(item.name), ".one") \/ Contains(Lower(item.name), "onenote")

\* mutant: every folder is recursed into
MayRecurse_Always(depth) == TRUE

\* ... and depth < 2
MayRecurse(depth) == depth < 2

Frame(folder_id, depth) ==
    [folder_id |-> folder_id, depth |-> depth, stage |-> "enter", items |-> <<>>, idx |-> 1]

Top == stack[Len(stack)]

Pop == SubSeq(stack, 1, Len(stack) - 1)

ReplaceTop(frame) == [stack EXCEPT ![Len(stack)] = frame]

DriveFrame == UNCHANGED <<match_vars, req_vars, users_vars, sections_vars, extract_vars, script, sent>>

\* the start of an invocation: return beyond depth 3, else request the children
\* and return unless the response has a value
ExploreEnter ==
    /\ stack # <<>>
    /\ Top.stage = "enter"
    /\ IF Top.depth > 3
       THEN /\ stack' = Pop
            /\ UNCHANGED calls
       ELSE /\ calls' = calls + 1
            /\ \E listed \in BOOLEAN :
                 IF listed
                 THEN stack' = ReplaceTop([Top EXCEPT !.stage = "items",
                                                      !.items = drive[Top.folder_id]])
                 ELSE stack' = Pop
    /\ UNCHANGED <<drive, max_depth>>
    /\ DriveFrame

\* one iteration of "for item in items"
ExploreItem ==
    /\ stack # <<>>
    /\ Top.stage = "items"
    /\ Top.idx <= Len(Top.items)
    /\ LET item == Top.items[Top.idx]
           next == ReplaceTop([Top EXCEPT !.idx = Top.idx + 1])
       IN  IF IsFolder(item)
           THEN IF MayRecurse(Top.depth)
                THEN /\ stack' = Append(next, Frame(item.id, Top.depth + 1))
                     /\ max_depth' = IF Top.depth + 1 > max_depth THEN Top.depth + 1
                                     ELSE max_depth
                     /\ UNCHANGED calls
                ELSE /\ stack' = next
                     /\ UNCHANGED <<max_depth, calls>>
           ELSE /\ stack' = next
                /\ calls' = IF IsOneNote(item) /\ DEBUG_LEVEL >= 2 THEN calls + 1 ELSE calls
                /\ UNCHANGED max_depth
    /\ UNCHANGED drive
    /\ DriveFrame

\* the loop is over: the invocation returns
ExploreReturn ==
    /\ stack # <<>>
    /\ Top.stage = "items"
    /\ Top.idx > Len(Top.items)
    /\ stack' = Pop
    /\ UNCHANGED <<drive, max_depth, calls>>
    /\ DriveFrame

DriveNext ==
    \/ ExploreEnter
    \/ ExploreItem
    \/ ExploreReturn

DriveInit ==
    /\ drive \in Drives
    /\ stack = <<Frame("root", 0)>>
    /\ max_depth = 0
    /\ calls = 0
    /\ script = "servitec_notebook_extraction"
    /\ sent = <<>>
    /\ OthersIdle("drive")

SpecDrive == DriveInit /\ [][DriveNext]_vars

\* a sequential run keeps executing until the traversal returns
SpecDriveFair == SpecDrive /\ WF_vars(DriveNext)

------------------------------------------------------------------------------
(* Properties of explore_drive_structure *)

\* C9: started at depth 0 the function is never invoked at a depth greater than
\* 2, it makes finitely many requests (at most two per invocation, of which
\* there are at most 1 + n + n*n for n folders) and the traversal returns, also
\* on drives whose folders list each other.
C9_FixedDepth ==
    /\ [](/\ max_depth <= 2
          /\ \A k \in 1..Len(stack) : stack[k].depth <= 2
          /\ calls <= 2 * (1 + MaxFolders + MaxFolders * MaxFolders))
    /\ <>(stack = <<>>)

\* the traversal of a drive whose two first folders list each other has returned
C9_Witness ==
    /\ stack = <<>>
    /\ max_depth = 2
    /\ \E k \in 1..Len(drive["f1"]) : drive["f1"][k].id = "f2"
    /\ \E k \in 1..Len(drive["f2"]) : drive["f2"][k].id = "f1"
    /\ calls >= 4

------------------------------------------------------------------------------
(* get_sections_for_notebook (notebook_extraction.py and                    *)
(* servitec_notebook_extraction.py)                                         *)

MaxSections == 1

Section(k) == [id |-> "s" \o ToString(k), displayName |-> "Section " \o ToString(k)]

\* the "value" lists a sections endpoint can answer with
SectionLists == { [k \in 1..n |-> Section(k)] : n \in 0..MaxSections }

\* make_request returned None: no 200, or the retries were used up
NoResponse == [none |-> TRUE]

\* what make_request returns: None, an empty dict, a dict without "value", or
\* a dict with a "value" list
Responses ==
    { NoResponse, <<>>, [error |-> "itemNotFound"] }
        \cup { [value |-> l] : l \in SectionLists }

\* if response and "value" in response
HasValue_NonEmptyOnly(response) ==
    /\ response # NoResponse
    /\ "value" \in DOMAIN response
    /\ response.value # <<>>

HasValue(response) == response # NoResponse /\ "value" \in DOMAIN response

Endpoints == <<"group", "site", "personal", "filter">>

\* the URL of each endpoint, for notebook_id = "n1"
SectionsUrl(endpoint) ==
    CASE endpoint = "group"    -> "/groups/g1/onenote/notebooks/n1/sections"
      [] endpoint = "site"     -> "/sites/s1/onenote/notebooks/n1/sections"
      [] endpoint = "personal" -> "/me/onenote/notebooks/n1/sections"
      [] endpoint = "filter"   -> "/me/onenote/sections?$filter=parentNotebook/id eq 'n1'"

SectionsFrame ==
    UNCHANGED <<match_vars, req_vars, users_vars, drive_vars, extract_vars, script>>

\* response = make_request(url); return response["value"] if it is there, else
\* go on to the next endpoint
TryEndpoint(endpoint, next) ==
    /\ IssueGet(script, SectionsUrl(endpoint))
    /\ IF HasValue(answers[endpoint])
       THEN sections' = answers[endpoint].value /\ sec_pc' = "returned"
       ELSE sec_pc' = next /\ UNCHANGED sections
    /\ UNCHANGED <<group_id, site_id, answers>>
    /\ SectionsFrame

\* the endpoint is not tried
SkipEndpoint(next) ==
    /\ sec_pc' = next
    /\ UNCHANGED <<group_id, site_id, answers, sections, sent>>
    /\ SectionsFrame

\* notebook_extraction: 1. the group endpoint, if group_id
NbGroupEndpoint ==
    /\ script = "notebook_extraction"
    /\ sec_pc = "group"
    /\ IF group_id # None THEN TryEndpoint("group", "site") ELSE SkipEndpoint("site")

\* notebook_extraction: 2. the site endpoint, if site_id and not sections
NbSiteEndpoint ==
    /\ script = "notebook_extraction"
    /\ sec_pc = "site"
    /\ IF site_id # None /\ sections = <<>>
       THEN TryEndpoint("site", "personal")
       ELSE SkipEndpoint("personal")

\* notebook_extraction: 3. the personal endpoint, if not sections
NbPersonalEndpoint ==
    /\ script = "notebook_extraction"
    /\ sec_pc = "personal"
    /\ IF sections = <<>> THEN TryEndpoint("personal", "filter") ELSE SkipEndpoint("filter")

\* notebook_extraction: 4. the filter endpoint, if not sections
NbFilterEndpoint ==
    /\ script = "notebook_extraction"
    /\ sec_pc = "filter"
    /\ IF sections = <<>> THEN TryEndpoint("filter", "none") ELSE SkipEndpoint("none")

\* servitec: the site endpoint, if site_id
SvSiteEndpoint ==
    /\ script = "servitec_notebook_extraction"
    /\ sec_pc = "site"
    /\ IF site_id # None THEN TryEndpoint("site", "personal") ELSE SkipEndpoint("personal")

\* servitec: the personal endpoint, if not sections
SvPersonalEndpoint ==
    /\ script = "servitec_notebook_extraction"
    /\ sec_pc = "personal"
    /\ IF sections = <<>> THEN TryEndpoint("personal", "none") ELSE SkipEndpoint("none")

\* no endpoint answered: return []
SectionsNone ==
    /\ sec_pc = "none"
    /\ sec_pc' = "returned"
    /\ sections' = <<>>
    /\ UNCHANGED <<group_id, site_id, answers, sent>>
    /\ SectionsFrame

SectionsNext ==
    \/ NbGroupEndpoint
    \/ NbSiteEndpoint
    \/ NbPersonalEndpoint
    \/ NbFilterEndpoint
    \/ SvSiteEndpoint
    \/ SvPersonalEndpoint
    \/ SectionsNone

\* the endpoints each function knows, in the order of its code
EndpointsOf(by) ==
    IF by = "notebook_extraction" THEN Endpoints ELSE SubSeq(Endpoints, 2, 3)

SectionsInit ==
    /\ script \in {"notebook_extraction", "servitec_notebook_extraction"}
    /\ group_id \in (IF script = "notebook_extraction" THEN {None, "g1"} ELSE {None})
    /\ site_id \in {None, "s1"}
    /\ answers \in [{EndpointsOf(script)[k] : k \in 1..Len(EndpointsOf(script))} -> Responses]
    /\ sec_pc = EndpointsOf(script)[1]
    /\ sections = <<>>
    /\ sent = <<>>
    /\ OthersIdle("sections")

SpecSections == SectionsInit /\ [][SectionsNext]_vars

------------------------------------------------------------------------------
(* Properties of get_sections_for_notebook *)

\* the endpoints a call may request, in priority order: the group and the site
\* endpoint only when their id is given
GivenEndpoints ==
    SelectSeq(EndpointsOf(script),
              LAMBDA e : /\ e = "group" => group_id # None
                         /\ e = "site" => site_id # None)

\* an endpoint fails: no response, or a response with no "value" key
Failed(endpoint) ==
    answers[endpoint] = NoResponse \/ "value" \notin DOMAIN answers[endpoint]

\* the endpoints of that order that do not fail
Answering == { k \in 1..Len(GivenEndpoints) : ~Failed(GivenEndpoints[k]) }

FirstAnswering == CHOOSE k \in Answering : \A j \in Answering : k <= j

\* C19: the requests of a call are the endpoints in priority order (group,
\* site, personal, filter in notebook_extraction; site, personal in servitec;
\* group and site only when their id is given), an endpoint is requested only
\* if every earlier one gave no response or no "value" key, and the call
\* returns the "value" list of the first endpoint that has one, also an empty
\* list, or [] after all endpoints failed.
C19_EndpointOrder ==
    /\ Len(sent) <= Len(GivenEndpoints)
    /\ \A k \in 1..Len(sent) :
          /\ sent[k] = Request(script, "GET", SectionsUrl(GivenEndpoints[k]))
          /\ \A j \in 1..(k - 1) : Failed(GivenEndpoints[j])
    /\ sec_pc = "returned" =>
          IF Answering # {}
          THEN /\ Len(sent) = FirstAnswering
               /\ sections = answers[GivenEndpoints[FirstAnswering]].value
          ELSE /\ Len(sent) = Len(GivenEndpoints)
               /\ sections = <<>>

\* notebook_extraction, both ids given: the group endpoint gives no response,
\* the site endpoint answers with an empty list, which is returned although
\* the personal endpoint has a section
C19_Witness ==
    /\ script = "notebook_extraction"
    /\ sec_pc = "returned"
    /\ group_id # None /\ site_id # None
    /\ answers["group"] = NoResponse
    /\ answers["site"] = [value |-> <<>>]
    /\ answers["personal"] = [value |-> <<Section(1)>>]
    /\ Len(sent) = 2
    /\ sections = <<>>

------------------------------------------------------------------------------
(* extract_onenote_from_sharepoint (servitec_notebook_extraction.py):       *)
(* the computations of the loop bodies                                      *)

\* the value match_notebook_to_channel(nb_name, chs, team) returns
MatchNotebookToChannel(nb_name, chs, team) ==
    LET clean  == StripPrefixes(Lower(nb_name))
        exact  == FirstMatch([k \in 1..Len(chs) |-> ExactTest(chs[k], clean)])
        within == FirstMatch([k \in 1..Len(chs) |-> ContainTest(chs[k], clean)])
        best   == BestMatch(chs, clean)
        inits  == FirstMatch([k \in 1..Len(chs) |-> InitialsTest(chs[k], clean)])
    IN  IF IsTeamName(clean, team) /\ HasGeneral(chs) THEN Pair(GeneralChannel(chs))
        ELSE IF exact # 0 THEN Pair(chs[exact])
        ELSE IF within # 0 THEN Pair(chs[within])
        ELSE IF best.best_match # 0 /\ best.best_match_score > 0
             THEN Pair(chs[best.best_match])
        ELSE IF inits # 0 THEN Pair(chs[inits])
        ELSE IF HasGeneral(chs) THEN Pair(GeneralChannel(chs))
        ELSE IF Len(chs) > 0 THEN Pair(chs[1])
        ELSE Sentinel

\* the prefixes removed from a notebook name before it is compared with folders
folder_prefixes == << "bloc de notas de ", "notas_ ", "notas de ", "notebook " >>

RECURSIVE SimplifiedFrom(_, _)
SimplifiedFrom(name, k) ==
    IF k > Len(folder_prefixes) THEN name
    ELSE SimplifiedFrom(IF StartsWith(name, folder_prefixes[k])
                        THEN SubSeq(name, Len(folder_prefixes[k]) + 1, Len(name))
                        ELSE name,
                        k + 1)

\* simplified_name of a notebook
SimplifiedName(notebook) == SimplifiedFrom(Lower(Get(notebook, "displayName", "")), 1)

\* a dict is the list of its items [key, value] in insertion order

RECURSIVE DictOf(_, _, _)
\* the dict filled by d[keys[k]] = notebooks[k] for k = from, from + 1, ...
DictOf(notebooks, keys, from) ==
    IF from > Len(notebooks) THEN <<>>
    ELSE LET rest == DictOf(notebooks, keys, from + 1)
         IN  IF \E k \in 1..Len(rest) : rest[k].key = keys[from]
             THEN <<[key |-> keys[from],
                     value |-> (CHOOSE e \in {rest[k] : k \in 1..Len(rest)} :
                                    e.key = keys[from]).value]>>
                  \o SelectSeq(rest, LAMBDA e : e.key # keys[from])
             ELSE <<[key |-> keys[from], value |-> notebooks[from]]>> \o rest

\* name_to_notebook
NameToNotebook(notebooks) ==
    DictOf(notebooks, [k \in 1..Len(notebooks) |-> SimplifiedName(notebooks[k])], 1)

\* notebook_mapping
NotebookMapping(notebooks) ==
    DictOf(notebooks, [k \in 1..Len(notebooks) |-> Get(notebooks[k], "id", None)], 1)

\* name == other or name in other or other in name
NamesMatch(name, other) ==
    name = other \/ Contains(other, name) \/ Contains(name, other)

\* the first item of name_to_notebook whose name matches; 0 for None
MatchByName(dict, simplified) ==
    FirstMatch([k \in 1..Len(dict) |-> NamesMatch(dict[k].key, simplified)])

RECURSIVE PartialFrom(_, _, _, _, _)
\* the partial match: the first item with the greatest, positive, number of
\* tokens in common with the folder name
PartialFrom(dict, simplified, k, matched, matched_similarity) ==
    IF k > Len(dict) THEN matched
    ELSE LET common_tokens == TokenSet(simplified) \cap TokenSet(dict[k].key)
         IN  IF common_tokens # {} /\ Cardinality(common_tokens) > matched_similarity
             THEN PartialFrom(dict, simplified, k + 1, k, Cardinality(common_tokens))
             ELSE PartialFrom(dict, simplified, k + 1, matched, matched_similarity)

\* matched_notebook for a folder, as an index of name_to_notebook; 0 for None
MatchFolder(dict, simplified) ==
    IF MatchByName(dict, simplified) # 0 THEN MatchByName(dict, simplified)
    ELSE PartialFrom(dict, simplified, 1, 0, 0)

RECURSIVE RemoveFrom(_, _, _)
RemoveFrom(s, sub, i) ==
    IF i > Len(s) THEN ""
    ELSE IF i + Len(sub) - 1 <= Len(s) /\ SubSeq(s, i, i + Len(sub) - 1) = sub
         THEN RemoveFrom(s, sub, i + Len(sub))
         ELSE CharAt(s, i) \o RemoveFrom(s, sub, i + 1)

\* s.replace(sub, "")
Remove(s, sub) == RemoveFrom(s, sub, 1)

\* s.find(sub) + 1: the place of the first sub in s, 0 when there is none
Find(s, sub) ==
    IF Contains(s, sub)
    THEN CHOOSE i \in 1..(Len(s) - Len(sub) + 1) :
            /\ SubSeq(s, i, i + Len(sub) - 1) = sub
            /\ \A j \in 1..(i - 1) : SubSeq(s, j, j + Len(sub) - 1) # sub
    ELSE 0

\* s.split(sep)[0]
BeforeFirst(s, sep) == IF Contains(s, sep) THEN SubSeq(s, 1, Find(s, sep) - 1) ELSE s

\* extract_notebook_id_from_weburl: web_url.split("notebooks/")[1].split("/")[0],
\* None when "notebooks/" is not in web_url
ExtractNotebookIdFromWeburl(web_url) ==
    IF ~Contains(web_url, "notebooks/") THEN None
    ELSE LET after == SubSeq(web_url, Find(web_url, "notebooks/") + Len("notebooks/"),
                             Len(web_url))
         IN  BeforeFirst(BeforeFirst(after, "notebooks/"), "/")

\* find_onenote_files: ".one" in name.lower() or "onenote" in file_type.lower()
IsOneNoteFile(item) ==
    \/ Contains(Lower(Get(item, "name", "")), ".one")
    \/ Contains(Lower(Get(Get(item, "file", <<>>), "mimeType", "")), "onenote")

\* find_onenote_files(drive_id, folder_id): the OneNote items of the folder's
\* listing, [] when the listing has no "value"
FindOnenoteFiles(folder) ==
    IF HasValue(folder.children)
    THEN SelectSeq(folder.children.value, IsOneNoteFile)
    ELSE <<>>

\* the sections the service holds for a notebook, as get_sections_for_notebook
\* returns them
SectionsOf(notebook_id) ==
    IF notebook_id \in {"n1", "notebook-1"} THEN <<Section(1)>> ELSE <<>>

\* notebook_data: the entry built for a notebook; match_source is None for an
\* entry of Step A, which has no such key
NotebookData(team, chs, notebook, match_source) ==
    LET pair == MatchNotebookToChannel(notebook.displayName, chs,
                                       Get(team, "displayName", "Unknown Team"))
        secs == SectionsOf(Get(notebook, "id", None))
        data == [team_name     |-> Get(team, "displayName", "Unknown Team"),
                 team_id       |-> Get(team, "id", None),
                 channel_name  |-> pair.channel_name,
                 channel_id    |-> pair.channel_id,
                 notebook_name |-> notebook.displayName,
                 notebook_id   |-> Get(notebook, "id", None),
                 sections      |-> [k \in 1..Len(secs) |->
                                       [section_id   |-> Get(secs[k], "id", None),
                                        section_name |-> Get(secs[k], "displayName",
                                                             "Unnamed Section")]]]
    IN  IF match_source = None THEN data
        ELSE data @@ [match_source |-> match_source]

\* notebooks_data.append(notebook_data); processed_notebook_ids.add(notebook_id)
AddNotebook(acc, team, chs, notebook, match_source) ==
    [data      |-> Append(acc.data, NotebookData(team, chs, notebook, match_source)),
     processed |-> acc.processed \cup {Get(notebook, "id", None)}]

\* Step A: the folder's matching notebook, if any, is added
StepA(folder, team, chs, acc) ==
    LET dict    == NameToNotebook(team.notebooks)
        matched == MatchFolder(dict, Lower(Get(folder, "name", "Unknown")))
    IN  IF matched # 0
        THEN AddNotebook(acc, team, chs, dict[matched].value, None)
        ELSE acc

RECURSIVE StepB(_, _, _, _, _)
\* Step B: the loop over the OneNote files of a folder, from file k on
StepB(files, k, team, chs, acc) ==
    IF k > Len(files) THEN acc
    ELSE LET simplified   == Lower(Remove(Get(files[k], "name", ""), ".one"))
             dict         == NameToNotebook(team.notebooks)
             mapping      == NotebookMapping(team.notebooks)
             by_name      == MatchByName(dict, simplified)
             extracted_id == ExtractNotebookIdFromWeburl(Get(files[k], "webUrl", ""))
             by_url       == IF extracted_id \in {None, ""} THEN 0
                             ELSE FirstMatch([j \in 1..Len(mapping) |->
                                                 mapping[j].key = extracted_id])
             matched_api_notebook ==
                 IF by_name # 0 THEN dict[by_name].value ELSE mapping[by_url].value
         IN  IF by_name = 0 /\ by_url = 0
             THEN StepB(files, k + 1, team, chs, acc)
             ELSE IF Get(matched_api_notebook, "id", None) \in acc.processed
             THEN StepB(files, k + 1, team, chs, acc)
             ELSE StepB(files, k + 1, team, chs,
                        AddNotebook(acc, team, chs, matched_api_notebook, "file_in_folder"))

RECURSIVE Step7_Nothing(_, _, _, _, _)
\* mutant: the notebooks no folder matched are left out
Step7_Nothing(notebooks, k, team, chs, acc) == acc

RECURSIVE Step7(_, _, _, _, _)
\* Step 7: the loop over the notebooks of the OneNote API, from notebook k on
Step7(notebooks, k, team, chs, acc) ==
    IF k > Len(notebooks) THEN acc
    ELSE IF Get(notebooks[k], "id", None) \notin acc.processed
         THEN Step7(notebooks, k + 1, team, chs,
                    AddNotebook(acc, team, chs, notebooks[k], "api_only"))
         ELSE Step7(notebooks, k + 1, team, chs, acc)

------------------------------------------------------------------------------
(* extract_onenote_from_sharepoint: the teams the service holds *)

MaxTeams == 2

TeamId(i) == "t" \o ToString(i)

\* the name of the i-th team
TeamDisplayName(i) == IF i = 1 THEN "Sales" ELSE IF i = 2 THEN "Dev Ops" ELSE "Marketing"

\* the channels of the i-th team: the second team has none, and a channel of
\* the third lacks its id
ServiceChannels(i) ==
    IF i = 1 THEN << [id |-> "c1", displayName |-> "General"],
                     [id |-> "c2", displayName |-> "Sales"] >>
    ELSE IF i = 2 THEN <<>>
    ELSE << [displayName |-> "Dev Ops"] >>

\* notebooks of the OneNote API; the third has the simplified name of the first
NbSales     == [id |-> "n1", displayName |-> "Sales"]
NbDevOps    == [id |-> "n2", displayName |-> "Notebook Dev Ops"]
NbSalesCopy == [id |-> "n3", displayName |-> "Notebook Sales"]

NotebookLists == { <<NbSales, NbDevOps>>, <<NbSalesCopy, NbSales>> }

\* items of the document library
SalesOne  == [id |-> "i1", name |-> "Sales.one", webUrl |-> "https://sp/sites/s/Sales.one",
              file |-> [mimeType |-> "application/msonenote"]]
LinkedOne == [id |-> "i2", name |-> "Open Notebook.onetoc2",
              webUrl |-> "https://sp/notebooks/n2/open"]
PlanDocx  == [id |-> "i3", name |-> "plan.docx", webUrl |-> "https://sp/sites/s/plan.docx",
              file |-> [mimeType |-> "application/docx"]]

\* a folder item, with what the listing of its children answers
FolderOf(id, name, children) ==
    [id |-> id, name |-> name, folder |-> TRUE, children |-> children]

\* the "value" lists of the drive root
RootListings == {
    <<>>,
    << FolderOf("f1", "Sales", [value |-> <<SalesOne, PlanDocx>>]) >>,
    << FolderOf("f1", "Sales", NoResponse),
       FolderOf("f2", "Sales Team", [value |-> <<LinkedOne>>]) >>,
    << PlanDocx, FolderOf("f3", "General", [value |-> <<SalesOne>>]) >> }

Site  == [id |-> "site1", displayName |-> "Site"]
Drive == [id |-> "d1", name |-> "Documents"]

\* what the service answers for the i-th team: the site lookup, the notebooks
\* of the OneNote API, the document library and the listing of the drive root
TeamWorld(i, site, notebooks, library, root) ==
    [id |-> TeamId(i), displayName |-> TeamDisplayName(i), channels |-> ServiceChannels(i),
     site |-> site, notebooks |-> notebooks, library |-> library, root |-> root]

TeamWorlds(i) ==
    { TeamWorld(i, NoResponse, <<NbSales>>, Drive, [value |-> <<>>]),
      TeamWorld(i, Site, <<>>, Drive, [value |-> <<>>]),
      TeamWorld(i, Site, <<NbSales>>, NoResponse, [value |-> <<>>]),
      TeamWorld(i, Site, <<NbSales>>, Drive, NoResponse),
      TeamWorld(i, Site, <<NbSales>>, Drive, [error |-> "accessDenied"]) }
    \cup { TeamWorld(i, Site, notebooks, Drive, [value |-> listing]) :
               notebooks \in NotebookLists, listing \in RootListings }

\* the "value" lists of /me/joinedTeams
TeamLists ==
    UNION { { t \in [1..n -> UNION { TeamWorlds(i) : i \in 1..n }] :
                \A i \in 1..n : t[i] \in TeamWorlds(i) } : n \in 0..MaxTeams }

------------------------------------------------------------------------------
(* extract_onenote_from_sharepoint: the function *)

ExtractFrame ==
    UNCHANGED <<match_vars, req_vars, users_vars, drive_vars, sections_vars, script, sent>>

\* the team of the current iteration of "for team in teams"
Team == teams[team_idx + 1]

\* get_team_channels(team_id): the channels of the team, or [] when the
\* request fails
ChannelFetches(team) == { team.channels, <<>> }

\* root_folders
RootFolders(team) == SelectSeq(team.root.value, IsFolder)

\* why the iteration ends in a "continue", "none" when it does not
SkipReason(team) ==
    IF team.site = NoResponse \/ "id" \notin DOMAIN team.site THEN "site"
    ELSE IF team.notebooks = <<>> THEN "notebooks"
    ELSE IF team.library = NoResponse THEN "library"
    ELSE IF ~HasValue(team.root) THEN "root"
    ELSE "none"

\* teams = get_all_teams(); return if there is none
SpGetAllTeams ==
    /\ script = "servitec_notebook_extraction"
    /\ x_pc = "start"
    /\ x_pc' = IF teams = <<>> THEN "done" ELSE "team"
    /\ UNCHANGED <<teams, team_idx, team_channels, folder_idx, processed_notebook_ids,
                   notebooks_data, final_idx, before_final, refetched, saved>>
    /\ ExtractFrame

\* mutant: a skipped team gets an entry for each notebook of the OneNote API
SpSkipTeam_ApiOnly ==
    /\ script = "servitec_notebook_extraction"
    /\ x_pc = "team"
    /\ team_idx < Len(teams)
    /\ SkipReason(Team) # "none"
    /\ \E fetched \in ChannelFetches(Team) :
         /\ team_channels' = fetched
         /\ notebooks_data' =
                Step7(Team.notebooks, 1, Team, fetched,
                      [data |-> notebooks_data, processed |-> {}]).data
    /\ team_idx' = team_idx + 1
    /\ UNCHANGED <<teams, x_pc, folder_idx, processed_notebook_ids,
                   final_idx, before_final, refetched, saved>>
    /\ ExtractFrame

\* an iteration that ends in one of the four "continue"
SpSkipTeam ==
    /\ script = "servitec_notebook_extraction"
    /\ x_pc = "team"
    /\ team_idx < Len(teams)
    /\ SkipReason(Team) # "none"
    /\ \E fetched \in ChannelFetches(Team) : team_channels' = fetched
    /\ team_idx' = team_idx + 1
    /\ UNCHANGED <<teams, x_pc, folder_idx, processed_notebook_ids, notebooks_data,
                   final_idx, before_final, refetched, saved>>
    /\ ExtractFrame

\* an iteration up to the loop over the root folders
SpEnterTeam ==
    /\ script = "servitec_notebook_extraction"
    /\ x_pc = "team"
    /\ team_idx < Len(teams)
    /\ SkipReason(Team) = "none"
    /\ \E fetched \in ChannelFetches(Team) : team_channels' = fetched
    /\ processed_notebook_ids' = {}
    /\ folder_idx' = 0
    /\ x_pc' = "folders"
    /\ UNCHANGED <<teams, team_idx, notebooks_data, final_idx, before_final,
                   refetched, saved>>
    /\ ExtractFrame

\* one iteration of "for folder in root_folders": Step A, then Step B
SpFolder ==
    /\ script = "servitec_notebook_extraction"
    /\ x_pc = "folders"
    /\ folder_idx < Len(RootFolders(Team))
    /\ LET folder == RootFolders(Team)[folder_idx + 1]
           acc    == StepB(FindOnenoteFiles(folder), 1, Team, team_channels,
                           StepA(folder, Team, team_channels,
                                 [data |-> notebooks_data,
                                  processed |-> processed_notebook_ids]))
       IN  /\ notebooks_data' = acc.data
           /\ processed_notebook_ids' = acc.processed
    /\ folder_idx' = folder_idx + 1
    /\ UNCHANGED <<teams, x_pc, team_idx, team_channels, final_idx, before_final,
                   refetched, saved>>
    /\ ExtractFrame

\* Step 7, after the last folder: the iteration of the team ends
SpRemaining ==
    /\ script = "servitec_notebook_extraction"
    /\ x_pc = "folders"
    /\ folder_idx = Len(RootFolders(Team))
    /\ LET acc == Step7(Team.notebooks, 1, Team, team_channels,
                        [data |-> notebooks_data, processed |-> processed_notebook_ids])
       IN  /\ notebooks_data' = acc.data
           /\ processed_notebook_ids' = acc.processed
    /\ team_idx' = team_idx + 1
    /\ x_pc' = "team"
    /\ UNCHANGED <<teams, team_channels, folder_idx, final_idx, before_final,
                   refetched, saved>>
    /\ ExtractFrame

\* the loop over the teams is over: the final pass begins
SpBeginFinalPass ==
    /\ script = "servitec_notebook_extraction"
    /\ x_pc = "team"
    /\ team_idx = Len(teams)
    /\ x_pc' = "final"
    /\ final_idx' = 0
    /\ before_final' = notebooks_data
    /\ refetched' = <<>>
    /\ UNCHANGED <<teams, team_idx, team_channels, folder_idx, processed_notebook_ids,
                   notebooks_data, saved>>
    /\ ExtractFrame

\* mutant: the final pass also records that it matched the entry
Rematched_Marked(entry, chs) ==
    LET pair == MatchNotebookToChannel(entry.notebook_name, chs, entry.team_name)
    IN  IF chs = <<>> THEN entry
        ELSE [channel_name |-> pair.channel_name, channel_id |-> pair.channel_id,
              match_source |-> "final_pass"] @@ entry

\* the entry after a new match against the channels fetched again
Rematched(entry, chs) ==
    LET pair == MatchNotebookToChannel(entry.notebook_name, chs, entry.team_name)
    IN  IF chs = <<>> THEN entry
        ELSE IF pair.channel_id # "unknown"
        THEN [entry EXCEPT !.channel_name = pair.channel_name,
                           !.channel_id = pair.channel_id]
        ELSE [entry EXCEPT !.channel_name = Get(chs[1], "displayName", "First Channel"),
                           !.channel_id = Get(chs[1], "id", "unknown")]

\* one iteration of the final pass: an entry with channel_id "unknown" is
\* matched against the channels of its team, fetched again
SpFinalEntry ==
    /\ script = "servitec_notebook_extraction"
    /\ x_pc = "final"
    /\ final_idx < Len(notebooks_data)
    /\ LET entry == notebooks_data[final_idx + 1]
           team  == CHOOSE t \in {teams[i] : i \in 1..Len(teams)} : t.id = entry.team_id
       IN  IF entry.channel_id = "unknown"
           THEN \E chs \in ChannelFetches(team) :
                   /\ notebooks_data' =
                          [notebooks_data EXCEPT ![final_idx + 1] = Rematched(entry, chs)]
                   /\ refetched' = Append(refetched, [fetched |-> TRUE, channels |-> chs])
           ELSE /\ refetched' = Append(refetched, [fetched |-> FALSE])
                /\ UNCHANGED notebooks_data
    /\ final_idx' = final_idx + 1
    /\ UNCHANGED <<teams, x_pc, team_idx, team_channels, folder_idx,
                   processed_notebook_ids, before_final, saved>>
    /\ ExtractFrame

\* json.dump(notebooks_data, f)
SpSave ==
    /\ script = "servitec_notebook_extraction"
    /\ x_pc = "final"
    /\ final_idx = Len(notebooks_data)
    /\ saved' = notebooks_data
    /\ x_pc' = "done"
    /\ UNCHANGED <<teams, team_idx, team_channels, folder_idx, processed_notebook_ids,
                   notebooks_data, final_idx, before_final, refetched>>
    /\ ExtractFrame

SharePointNext ==
    \/ SpGetAllTeams
    \/ SpSkipTeam
    \/ SpEnterTeam
    \/ SpFolder
    \/ SpRemaining
    \/ SpBeginFinalPass
    \/ SpFinalEntry
    \/ SpSave

SharePointInit ==
    /\ script = "servitec_notebook_extraction"
    /\ teams \in TeamLists
    /\ x_pc = "start"
    /\ team_idx = 0
    /\ team_channels = <<>>
    /\ folder_idx = 0
    /\ processed_notebook_ids = {}
    /\ notebooks_data = <<>>
    /\ final_idx = 0
    /\ before_final = <<>>
    /\ refetched = <<>>
    /\ saved = None
    /\ sent = <<>>
    /\ OthersIdle("extract")

SpecSharePoint == SharePointInit /\ [][SharePointNext]_vars

------------------------------------------------------------------------------
(* Properties of extract_onenote_from_sharepoint *)

\* the entries of notebooks_data that belong to the i-th team
EntriesOf(i) == { k \in 1..Len(notebooks_data) : notebooks_data[k].team_id = teams[i].id }

\* the teams whose iteration is over, and those of them that were not skipped
Finished == 1..team_idx
Processed == { i \in Finished : SkipReason(teams[i]) = "none" }

C14_EveryNotebookListed ==
    \A i \in Processed :
        \A n \in 1..Len(teams[i].notebooks) :
            \E k \in EntriesOf(i) :
                notebooks_data[k].notebook_id = teams[i].notebooks[n].id

\* a team with two notebooks of the same simplified name and no folder: both
\* are listed, as notebooks no folder matched
C14_Witness ==
    /\ x_pc = "done"
    /\ Len(teams) = 1
    /\ teams[1].notebooks = <<NbSalesCopy, NbSales>>
    /\ RootFolders(teams[1]) = <<>>
    /\ Len(notebooks_data) = 2
    /\ \A k \in 1..2 : notebooks_data[k].match_source = "api_only"

\* a skipped team has no entry
SkippedHaveNone ==
    \A i \in Finished : SkipReason(teams[i]) # "none" => EntriesOf(i) = {}

\* the final pass begins only after the loop has gone through every team
AllTeamsVisited == x_pc \in {"final", "done"} => team_idx = Len(teams)

\* C15: an iteration for a team whose site lookup fails, whose notebook list is
\* empty, whose document library is not found or whose root listing fails
\* leaves notebooks_data as it was, also when the OneNote API returned
\* notebooks, and the loop goes on with the next team: the function gets to
\* its final pass only after it has gone through every team.
C15_SkippedTeams ==
    [][/\ (x_pc = "team" /\ team_idx < Len(teams) /\ SkipReason(Team) # "none") =>
             /\ notebooks_data' = notebooks_data
             /\ team_idx' = team_idx + 1
             /\ x_pc' = "team"
       /\ SkippedHaveNone'
       /\ AllTeamsVisited']_vars

\* the first team has a notebook but no document library and is skipped; the
\* second team, after it, is processed and has its entries
C15_Witness ==
    /\ x_pc = "done"
    /\ Len(teams) = 2
    /\ SkipReason(teams[1]) = "library"
    /\ teams[1].notebooks # <<>>
    /\ EntriesOf(1) = {}
    /\ SkipReason(teams[2]) = "none"
    /\ EntriesOf(2) # {}

\* the entries the final pass has visited
Revisited == 1..final_idx

\* C13: the final pass neither adds nor removes an entry; it leaves alone the
\* entries whose channel_id was not "unknown", and changes nothing but
\* channel_name and channel_id of the others; an entry it has visited still
\* has channel_id "unknown" only if the channel list fetched again for its
\* team was empty.
C13_FinalPass ==
    x_pc \in {"final", "done"} =>
        /\ Len(notebooks_data) = Len(before_final)
        /\ \A k \in 1..Len(notebooks_data) :
              /\ DOMAIN notebooks_data[k] = DOMAIN before_final[k]
              /\ \A f \in DOMAIN notebooks_data[k] \ {"channel_name", "channel_id"} :
                    notebooks_data[k][f] = before_final[k][f]
              /\ (before_final[k].channel_id # "unknown" \/ k \notin Revisited) =>
                    notebooks_data[k] = before_final[k]
              /\ (k \in Revisited /\ notebooks_data[k].channel_id = "unknown") =>
                    /\ refetched[k].fetched
                    /\ refetched[k].channels = <<>>

\* the channels of the first team could not be fetched in its iteration and
\* are there in the final pass, the second team has no channel: the entry of
\* the first team got a channel, that of the second team is still "unknown"
C13_Witness ==
    /\ x_pc = "done"
    /\ Len(teams) = 2
    /\ \E k \in EntriesOf(1) :
          /\ before_final[k].channel_id = "unknown"
          /\ notebooks_data[k].channel_id # "unknown"
          /\ refetched[k].channels # <<>>
    /\ \E k \in EntriesOf(2) :
          /\ before_final[k].channel_id = "unknown"
          /\ notebooks_data[k].channel_id = "unknown"
          /\ refetched[k].channels = <<>>

------------------------------------------------------------------------------
(* extract_onenote_notebooks_from_teams (notebook_extraction.py) *)

OneNoteAppId == "0d820ecd-def2-4297-adad-78056cde7c78"

\* is_onenote_tab(tab)
IsOnenoteTab(tab) ==
    \/ Contains(Get(tab, "displayName", ""), "OneNote")
    \/ Get(tab, "teamsAppId", None) = OneNoteAppId
    \/ Contains(Lower(Get(Get(tab, "configuration", <<>>), "contentUrl", "")), "onenote")
    \/ Contains(Lower(Get(tab, "webUrl", "")), "onenote")

\* whether get_tab_notebook_info(tab) has the key "notebook_id": the tab's
\* configuration has an entityId with "notebook" in it
HasNotebookId(tab) ==
    LET entity_id == Get(Get(tab, "configuration", <<>>), "entityId", None)
    IN  entity_id # None /\ entity_id # "" /\ Contains(Lower(entity_id), "notebook")

RECURSIVE Strip(_)
\* str.strip() of the spaces
Strip(s) ==
    IF s # "" /\ CharAt(s, 1) = " " THEN Strip(SubSeq(s, 2, Len(s)))
    ELSE IF s # "" /\ CharAt(s, Len(s)) = " " THEN Strip(SubSeq(s, 1, Len(s) - 1))
    ELSE s

\* get_notebook_details(notebook_id, team_id, site_id): the service knows the
\* first notebook only
NotebookDetails(notebook_id) ==
    IF notebook_id = "notebook-1"
    THEN [id |-> notebook_id, displayName |-> "Team Notebook"]
    ELSE NoResponse

\* the names of the sections, as both extraction functions list them
SectionEntries(secs) ==
    [k \in 1..Len(secs) |->
        [section_id   |-> Get(secs[k], "id", None),
         section_name |-> Get(secs[k], "displayName", "Unnamed Section")]]

\* notebook_data of a notebook of the group API
GroupNotebookData(team, notebook) ==
    [notebook_id   |-> Get(notebook, "id", None),
     notebook_name |-> Get(notebook, "displayName", "Unnamed Notebook"),
     project_name  |-> Get(team, "displayName", "Unknown Team"),
     team_id       |-> Get(team, "id", None),
     source        |-> "group_api",
     sections      |-> SectionEntries(SectionsOf(Get(notebook, "id", None)))]

\* notebook_data of a notebook named by a tab
TabNotebookData(team, channel, tab) ==
    LET notebook_id == tab.configuration.entityId
        tab_name    == Get(tab, "displayName", "Unnamed Tab")
        details     == IF NotebookDetails(notebook_id) = NoResponse
                       THEN [id |-> notebook_id,
                             displayName |-> Strip(Remove(tab_name, " (OneNote)"))]
                       ELSE NotebookDetails(notebook_id)
    IN  [notebook_id   |-> notebook_id,
         notebook_name |-> Get(details, "displayName", "Unnamed Notebook"),
         project_name  |-> Get(team, "displayName", "Unknown Team"),
         team_id       |-> Get(team, "id", None),
         channel_name  |-> Get(channel, "displayName", "Unknown Channel"),
         channel_id    |-> Get(channel, "id", None),
         tab_name      |-> tab_name,
         source        |-> "tab_configuration",
         sections      |-> SectionEntries(SectionsOf(notebook_id))]

RECURSIVE GroupLoop(_, _, _, _)
\* "for notebook in group_notebooks", from notebook k on
GroupLoop(notebooks, k, team, acc) ==
    IF k > Len(notebooks) THEN acc
    ELSE IF Get(notebooks[k], "id", None) \in acc.processed
         THEN GroupLoop(notebooks, k + 1, team, acc)
         ELSE GroupLoop(notebooks, k + 1, team,
                        [data      |-> Append(acc.data, GroupNotebookData(team, notebooks[k])),
                         processed |-> acc.processed \cup {Get(notebooks[k], "id", None)}])

RECURSIVE TabsLoop_Unchecked(_, _, _, _, _)
\* mutant: a tab's notebook is added without a look at processed_notebook_ids
TabsLoop_Unchecked(tabs, k, team, channel, acc) ==
    IF k > Len(tabs) THEN acc
    ELSE IF ~IsOnenoteTab(tabs[k]) \/ ~HasNotebookId(tabs[k])
         THEN TabsLoop_Unchecked(tabs, k + 1, team, channel, acc)
         ELSE TabsLoop_Unchecked(tabs, k + 1, team, channel,
                  [data      |-> Append(acc.data, TabNotebookData(team, channel, tabs[k])),
                   processed |-> acc.processed \cup {tabs[k].configuration.entityId}])

RECURSIVE TabsLoop(_, _, _, _, _)
\* "for tab in tabs", from tab k on
TabsLoop(tabs, k, team, channel, acc) ==
    IF k > Len(tabs) THEN acc
    ELSE IF ~IsOnenoteTab(tabs[k]) \/ ~HasNotebookId(tabs[k])
         THEN TabsLoop(tabs, k + 1, team, channel, acc)
         ELSE IF tabs[k].configuration.entityId \in acc.processed
         THEN TabsLoop(tabs, k + 1, team, channel, acc)
         ELSE TabsLoop(tabs, k + 1, team, channel,
                  [data      |-> Append(acc.data, TabNotebookData(team, channel, tabs[k])),
                   processed |-> acc.processed \cup {tabs[k].configuration.entityId}])

\* what the service holds for the teams of extract_onenote_notebooks_from_teams

\* a OneNote tab whose configuration names the k-th notebook
TabOneNote(k) ==
    [id            |-> "tab" \o ToString(k),
     displayName   |-> "Notes (OneNote)",
     configuration |-> [entityId |-> "notebook-" \o ToString(k)]]

\* a tab known as OneNote by its teamsAppId only
TabByApp ==
    [id            |-> "tabA",
     displayName   |-> "Team notes",
     teamsAppId    |-> OneNoteAppId,
     configuration |-> [entityId |-> "notebook-2"]]

\* a OneNote tab with a contentUrl and no entityId
TabContentUrl ==
    [id            |-> "tabC",
     displayName   |-> "OneNote",
     configuration |-> [contentUrl |-> "https://www.onenote.com/teams/TabContent"]]

\* a tab of another application
TabPlanner ==
    [id            |-> "tabP",
     displayName   |-> "Planner",
     configuration |-> [entityId |-> "notebook-1"]]

\* a OneNote tab without configuration and webUrl
TabBare == [id |-> "tabB", displayName |-> "OneNote"]

TabLists ==
    { <<>>,
      <<TabOneNote(1)>>,
      <<TabOneNote(2), TabOneNote(2)>>,
      <<TabByApp, TabContentUrl>>,
      <<TabPlanner, TabBare, TabOneNote(1)>> }

\* the k-th channel of a team, with its tabs
TabChannel(k, tabs) ==
    [id |-> "ch" \o ToString(k), displayName |-> "Channel " \o ToString(k), tabs |-> tabs]

TabChannelLists ==
    {<<>>} \cup { <<TabChannel(1, t)>> : t \in TabLists }
           \cup { <<TabChannel(1, <<TabOneNote(1)>>), TabChannel(2, <<TabByApp, TabContentUrl>>)>> }

\* the notebooks of the group API: the second has no displayName
GroupNotebook(k) ==
    IF k = 2 THEN [id |-> "notebook-2"]
    ELSE [id |-> "notebook-" \o ToString(k), displayName |-> "Team Notebook"]

GroupNotebookLists ==
    { <<>>, <<GroupNotebook(1), GroupNotebook(2)>>, <<GroupNotebook(1), GroupNotebook(1)>> }

\* the i-th team; its site only chooses the endpoint of the sections request
TabTeamWorlds(i) ==
    { [id              |-> TeamId(i),
       displayName     |-> TeamDisplayName(i),
       group_notebooks |-> g,
       channels        |-> c] : g \in GroupNotebookLists, c \in TabChannelLists }

TabTeamLists ==
    UNION { { t \in [1..n -> UNION { TabTeamWorlds(i) : i \in 1..n }] :
                \A i \in 1..n : t[i] \in TabTeamWorlds(i) } : n \in 0..MaxTeams }

\* teams = get_all_teams(); return if there is none
NbGetAllTeams ==
    /\ script = "notebook_extraction"
    /\ x_pc = "start"
    /\ x_pc' = IF teams = <<>> THEN "done" ELSE "team"
    /\ UNCHANGED <<teams, team_idx, team_channels, folder_idx, processed_notebook_ids,
                   notebooks_data, final_idx, before_final, refetched, saved>>
    /\ ExtractFrame

\* one iteration of "for team in teams" up to the channel loop: the notebooks
\* of the group API, then channels = get_team_channels(team_id)
NbGroupNotebooks ==
    /\ script = "notebook_extraction"
    /\ x_pc = "team"
    /\ team_idx < Len(teams)
    /\ LET acc == GroupLoop(Team.group_notebooks, 1, Team,
                            [data |-> notebooks_data, processed |-> processed_notebook_ids])
       IN  /\ notebooks_data' = acc.data
           /\ processed_notebook_ids' = acc.processed
    /\ \E fetched \in ChannelFetches(Team) :
          /\ team_channels' = fetched
          /\ folder_idx' = 0
          /\ IF fetched = <<>>
             THEN team_idx' = team_idx + 1 /\ x_pc' = "team"
             ELSE team_idx' = team_idx /\ x_pc' = "channels"
    /\ UNCHANGED <<teams, final_idx, before_final, refetched, saved>>
    /\ ExtractFrame

\* one iteration of "for channel in channels": the tabs of the channel
NbChannel ==
    /\ script = "notebook_extraction"
    /\ x_pc = "channels"
    /\ folder_idx < Len(team_channels)
    /\ LET channel == team_channels[folder_idx + 1]
           acc     == TabsLoop(channel.tabs, 1, Team, channel,
                               [data |-> notebooks_data, processed |-> processed_notebook_ids])
       IN  /\ notebooks_data' = acc.data
           /\ processed_notebook_ids' = acc.processed
    /\ folder_idx' = folder_idx + 1
    /\ IF folder_idx + 1 = Len(team_channels)
       THEN team_idx' = team_idx + 1 /\ x_pc' = "team"
       ELSE team_idx' = team_idx /\ x_pc' = "channels"
    /\ UNCHANGED <<teams, team_channels, final_idx, before_final, refetched, saved>>
    /\ ExtractFrame

\* json.dump(notebooks_data, f) after the last team
NbSave ==
    /\ script = "notebook_extraction"
    /\ x_pc = "team"
    /\ team_idx = Len(teams)
    /\ saved' = notebooks_data
    /\ x_pc' = "done"
    /\ UNCHANGED <<teams, team_idx, team_channels, folder_idx, processed_notebook_ids,
                   notebooks_data, final_idx, before_final, refetched>>
    /\ ExtractFrame

TabsNext ==
    \/ NbGetAllTeams
    \/ NbGroupNotebooks
    \/ NbChannel
    \/ NbSave

TabsInit ==
    /\ script = "notebook_extraction"
    /\ teams \in TabTeamLists
    /\ x_pc = "start"
    /\ team_idx = 0
    /\ team_channels = <<>>
    /\ folder_idx = 0
    /\ processed_notebook_ids = {}
    /\ notebooks_data = <<>>
    /\ final_idx = 0
    /\ before_final = <<>>
    /\ refetched = <<>>
    /\ saved = None
    /\ sent = <<>>
    /\ OthersIdle("extract")

SpecTabs == TabsInit /\ [][TabsNext]_vars

------------------------------------------------------------------------------
(* Properties of extract_onenote_notebooks_from_teams *)

\* the notebook ids that the tabs of a team's channels name
OfferedByTab(team) ==
    UNION { { team.channels[c].tabs[k].configuration.entityId :
                k \in { j \in 1..Len(team.channels[c].tabs) :
                            /\ IsOnenoteTab(team.channels[c].tabs[j])
                            /\ HasNotebookId(team.channels[c].tabs[j]) } } :
            c \in 1..Len(team.channels) }

\* C12: in extract_onenote_notebooks_from_teams no two entries of
\* notebooks_data have the same notebook_id, at every point of the run and in
\* the saved file, whether the entries come from the group API or from a tab
\* and from one team or from several; processed_notebook_ids is exactly the
\* set of the ids that have an entry.
C12_NoDuplicateIds ==
    script = "notebook_extraction" =>
        /\ \A k, l \in 1..Len(notebooks_data) :
              notebooks_data[k].notebook_id = notebooks_data[l].notebook_id => k = l
        /\ processed_notebook_ids =
              { notebooks_data[k].notebook_id : k \in 1..Len(notebooks_data) }
        /\ saved # None =>
              \A k, l \in 1..Len(saved) : saved[k].notebook_id = saved[l].notebook_id => k = l

\* a finished run of two teams: the first team's group API lists notebook-1
\* twice and notebook-1 is also on a tab of a fetched channel of the second
\* team, whose tab adds notebook-2; each id has exactly one entry
C12_Witness ==
    /\ script = "notebook_extraction"
    /\ x_pc = "done"
    /\ Len(teams) = 2
    /\ teams[1].group_notebooks = <<GroupNotebook(1), GroupNotebook(1)>>
    /\ "notebook-1" \in OfferedByTab(teams[1])
    /\ teams[2].channels =
           <<TabChannel(1, <<TabOneNote(1)>>), TabChannel(2, <<TabByApp, TabContentUrl>>)>>
    /\ Len(saved) = 2
    /\ saved[1].notebook_id = "notebook-1" /\ saved[1].source = "group_api"
    /\ saved[2].notebook_id = "notebook-2" /\ saved[2].source = "tab_configuration"
    /\ saved[2].team_id = TeamId(2)

====
